---- MODULE Spec2Model ----
(***************************************************************************)
(* Model of the Nutanix metering scripts.                                  *)
(*                                                                         *)
(*   exporter/daily_export.py      NutanixExporter  (billing export pass)  *)
(*   exporter/nutanix_exporter.py  NutanixCollector (metrics pass)         *)
(*   exporter/daily_export_scheduler.py   the daily export loop            *)
(*                                                                         *)
(* Under Spec one behaviour is one pass of one of the two scripts against  *)
(* a remote Prism Central whose inventory is fixed in the initial state.   *)
(* A pass is cut at its remote calls: an action is one call (the two calls *)
(* of collect_clusters are one action), whose outcome (HTTP 200 with a     *)
(* body, or a failure) is an input of the action, together with the code   *)
(* that runs up to the next call.                                          *)
(*                                                                         *)
(* Under SpecLoop one behaviour is the main loop of nutanix_exporter.py    *)
(* or of daily_export_scheduler.py: passes of the same actions, one after  *)
(* the other, against a remote that may hold entities with fields that are *)
(* not numbers.                                                            *)
(*                                                                         *)
(* Python dicts are records; d.get(k, default) is Get(d, k, default).      *)
(* A key that the remote leaves out is a field the record does not have.   *)
(***************************************************************************)
EXTENDS Integers, Sequences, FiniteSets, TLC

\* ------------------------------------------------------------------ bounds

\* Most VMs, hosts and file servers the remote holds.
MaxVms == 3
MaxHosts == 3
MaxFs == 2

\* The page length both scripts ask for ("length": 500 in the source),
\* scaled down so that an inventory of MaxVms entities spans several pages.
length == 2

\* ACCOUNT_ID, the default of the environment variable.
ACCOUNT_ID == "default"

\* Most passes a main loop starts in one behaviour.
MaxPasses == 2

\* Most remote calls that fail in one behaviour of a main loop.
MaxFaults == 1

\* The clock of the daily scheduler counts polls of its loop (one per
\* time.sleep(60)); it stops at MaxTime.
MaxTime == 6

\* Polls in a day (1440 in the source), scaled down.
DayLen == 4

\* EXPORT_TIME ('01:00', poll 60 of the day), scaled down likewise.
EXPORT_TIME == 1

\* ----------------------------------------------------------------- helpers

Min(a, b) == IF a <= b THEN a ELSE b

Max(a, b) == IF a >= b THEN a ELSE b

\* ceil(a / b) for b >= 1
CeilDiv(a, b) == (a + b - 1) \div b

\* dict.get(k, default)
Get(d, k, default) == IF k \in DOMAIN d THEN d[k] ELSE default

\* Python's round(num / den, digits) for an exactly representable quotient,
\* given as the scaled integer: round-half-even of num / den.
RoundHalfEven(num, den) ==
  LET q == num \div den
      r == num % den
  IN  IF 2 * r < den THEN q
      ELSE IF 2 * r > den THEN q + 1
      ELSE IF q % 2 = 0 THEN q ELSE q + 1

\* The concatenation of a sequence of sequences.
RECURSIVE Concat(_)
Concat(ss) == IF ss = <<>> THEN <<>> ELSE Head(ss) \o Concat(Tail(ss))

\* ------------------------------------------------------- the remote's data

\* Cluster references as the remote embeds them in hosts and VMs.
RefCatalog == <<
  [uuid |-> "u1", name |-> "beta"],
  [uuid |-> "",   name |-> ""],
  [uuid |-> "u2", name |-> "beta"],
  [uuid |-> "u2"],
  [uuid |-> "",   name |-> "beta"] >>

\* VM entities (metadata.uuid, spec.cluster_reference, spec.resources.*,
\* status.resources.power_state).
\* Disk sizes are kept below 2^31 / 100 bytes in total.
VmCatalog == <<
  [uuid |-> "vm1", cluster_reference |-> RefCatalog[1], memory_size_mib |-> 2048,
   power_state |-> "ON", disk_list |-> << [disk_size_bytes |-> 3145728] >>],
  [uuid |-> "vm2", cluster_reference |-> RefCatalog[2], memory_size_mib |-> 0,
   disk_list |-> << >>],
  [uuid |-> "vm3", cluster_reference |-> RefCatalog[3], memory_size_mib |-> 128,
   power_state |-> "OFF", disk_list |-> << [disk_size_bytes |-> 0, disk_size_mib |-> 2], [disk_size_mib |-> 1] >>],
  [uuid |-> "vm4", cluster_reference |-> RefCatalog[4], num_sockets |-> 2,
   num_vcpus_per_socket |-> 2, memory_size_mib |-> 1024, disk_list |-> << >>],
  [uuid |-> "vm5", cluster_reference |-> RefCatalog[5], num_sockets |-> 0,
   disk_list |-> << [disk_size_bytes |-> 1048576, disk_size_mib |-> 7] >>] >>

\* Host entities (metadata.uuid, status.cluster_reference, status.resources.*).
HostCatalog == <<
  [uuid |-> "h1", cluster_reference |-> RefCatalog[1], num_cpu_cores |-> 4],
  [uuid |-> "h2", cluster_reference |-> RefCatalog[2], num_cpu_cores |-> 0],
  [uuid |-> "h3", cluster_reference |-> RefCatalog[3], num_cpu_cores |-> 8],
  [uuid |-> "h4", cluster_reference |-> RefCatalog[4]] >>

\* File servers (extId) with the usedCapacityBytes of their stats,
\* carried in GiB (2^30 bytes): a TiB does not fit TLC's integers.
FsCatalog == <<
  [extId |-> "fs1", usedCapacityGiB |-> 0],
  [extId |-> "fs2", usedCapacityGiB |-> 1536],
  [extId |-> "fs3", usedCapacityGiB |-> 32] >>

\* The answers of clusters/list the remote may give.
ClusterLists == {
  << >>,
  << [uuid |-> "u1", name |-> "alpha"] >>,
  << [name |-> "gamma"] >> }

\* Entities with a numeric field that is JSON null or text that is no
\* number: not_numbers names the fields (the value itself is not kept).
OddCluster == [uuid |-> "u1", name |-> "alpha",
               not_numbers |-> {"hypervisor_cpu_usage_ppm"}]

OddVm == [uuid |-> "vm9", cluster_reference |-> RefCatalog[1],
          power_state |-> "ON", not_numbers |-> {"memory_size_mib"},
          disk_list |-> << >>]

OddHost == [uuid |-> "h9", cluster_reference |-> RefCatalog[1],
            num_cpu_cores |-> 2, not_numbers |-> {"cpu_usage_ppm"}]

\* The remotes a main loop runs against: what the remote holds during one
\* pass.
LoopRemotes == {
  [clusters |-> << [uuid |-> "u1", name |-> "alpha"] >>,
   vms |-> << VmCatalog[1], VmCatalog[3] >>,
   hosts |-> << HostCatalog[1], HostCatalog[3] >>,
   fs |-> << FsCatalog[1], FsCatalog[2] >>],
  [clusters |-> << [uuid |-> "u1", name |-> "alpha"] >>,
   vms |-> << VmCatalog[1] >>,
   hosts |-> << HostCatalog[1] >>,
   fs |-> << >>],
  [clusters |-> << >>,
   vms |-> << >>,
   hosts |-> << OddHost, HostCatalog[3] >>,
   fs |-> << FsCatalog[2] >>],
  [clusters |-> << OddCluster >>,
   vms |-> << VmCatalog[1], OddVm >>,
   hosts |-> << HostCatalog[1] >>,
   fs |-> << FsCatalog[2] >>] }

\* n consecutive entries of a catalog, from entry s + 1 on, wrapping round.
Rotation(catalog, s, n) ==
  [i \in 1..n |-> catalog[((i - 1 + s) % Len(catalog)) + 1]]

\* The inventories the remote may hold: up to `most` consecutive entries of
\* a catalog, from one of the given starts on.
Inventories(catalog, starts, most) ==
  { Rotation(catalog, s, n) : s \in starts, n \in 0..most }

\* ------------------------------------------------------------------- state

VARIABLES
  program,       \* which script this process runs: "export" or "collect"
  pc,            \* the remote call the pass makes next, or "done"
  r_clusters,    \* remote: the entities clusters/list answers with
  r_vms,         \* remote: the VMs it holds
  r_hosts,       \* remote: the hosts it holds
  r_fs,          \* remote: the file servers it holds
  r_page,        \* remote: the most entities it puts in one page
  r_total,       \* remote: the total_matches of its VM listing: "exact",
                 \*   "missing", "zero" or "over" (more than it holds)
  cluster_map,   \* uuid -> name lookup built from the cluster listing
  all_vms,       \* VMs accumulated by the paging loop
  offset,        \* offset of the next vms/list request
  rows,          \* export: billing rows built so far
  sno,           \* export: next sequence number
  file_servers,  \* export: result list of get_file_servers
  fs_todo,       \* file servers listed whose stats call is still to be made
  csvfile,       \* export: the output file
  output_file,   \* export: what export_to_csv returned
  reqlog,        \* every remote call of the pass, in order, with its answer
  vm_count,      \* collect: gauge nutanix_vm_count, by cluster_name
  host_count,    \* collect: gauge nutanix_host_count, by cluster_name
  vm_power_state,           \* collect: gauge by (vm_name, vm_uuid, cluster_name)
  host_physical_cpu_cores,  \* collect: gauge by (host_name, host_uuid, cluster_name)
  file_server_used,         \* collect: gauge by (file_server_name, file_server_uuid)
  vm_disk_size_bytes,       \* collect: gauge by (vm_name, vm_uuid)
  api_requests_total,       \* collect: counter by (endpoint, status)
  faults_left,   \* remote: calls it may still fail (negative: any number)
  loop,          \* where main() is: "once" for a single pass without a loop
  passes,        \* passes started so far
  in_progress,   \* passes started and not yet returned
  raised,        \* the pass in progress, or the last one, raised
  run_now,       \* scheduler: RUN_NOW
  started,       \* scheduler: the time main() started
  now,           \* scheduler: the time
  next_run,      \* scheduler: next_run of the job, once scheduled
  prev           \* the remote, calls and gauges of the pass before, or None

\* The pricing app (src/pricing/app.py).
VARIABLES
  pricing_file,    \* PRICING_FILE: the stored pricing, None before any save
  nci_hourly_rate, \* gauge by <<product_code, name>>
  nus_hourly_rate, \* gauge by <<product_code, name>>
  active_nci_rate, \* gauge without labels
  active_nus_rate, \* gauge without labels
  handlers,        \* by thread: the request it handles, how far it is, the
                   \*   pricing it holds and its response
  served,          \* requests received so far
  base             \* the stored pricing when the requests in hand arrived

remote == <<r_clusters, r_vms, r_hosts, r_fs, r_page, r_total>>

pricing_gauges == <<nci_hourly_rate, nus_hourly_rate, active_nci_rate,
                    active_nus_rate>>

pricing_vars == <<pricing_file, pricing_gauges, handlers, served, base>>

export_vars == <<rows, sno, file_servers, csvfile, output_file>>

gauges == <<vm_count, host_count, vm_power_state, host_physical_cpu_cores,
            file_server_used, vm_disk_size_bytes>>

counters == <<api_requests_total>>

main_vars == <<loop, passes, in_progress, raised, run_now, started, now,
               next_run, prev>>

vars == <<program, pc, remote, cluster_map, all_vms, offset, fs_todo, reqlog,
          export_vars, gauges, counters, faults_left, main_vars,
          pricing_vars>>

\* None, as returned by a request that failed; `not data` is Falsy(data).
None == << >>

Falsy(data) == DOMAIN data = {}

\* ------------------------------------------- the pricing app at its start

\* The threads that handle requests at the same time.
Threads == {1, 2}

\* A thread with no request in hand.
Idle == [pc |-> "idle"]

\* The app before its first request: no pricing file, every gauge unset.
PricingAtStart ==
  /\ pricing_file = << >>
  /\ nci_hourly_rate = << >>
  /\ nus_hourly_rate = << >>
  /\ active_nci_rate = 0
  /\ active_nus_rate = 0
  /\ handlers = [i \in Threads |-> Idle]
  /\ served = 0
  /\ base = << >>

\* What a remote call can come to: HTTP 200 with a JSON body, another
\* status, or a RequestException (timeout, connection error).
Outcomes == {"200", "500", "exception"}

\* The return value of export_to_csv when nothing was written.
NoFile == "None"

OutputPath == "nutanix_export.csv"

fieldnames == <<"accountId", "qty", "startDate", "endDate", "meteredItem",
                "appid", "sno", "fqdn", "type", "description", "guid">>

\* ------------------------------------------------------ the remote's answers

\* The page a list call with this offset and length gets: at most r_page
\* entities from the offset on, and the count of all entities.
ListBody(entities, off, len, page) ==
  [entities |-> IF off >= Len(entities) THEN << >>
                ELSE SubSeq(entities, off + 1,
                            Min(off + Min(len, page), Len(entities))),
   metadata |-> [total_matches |-> Len(entities)]]

\* The page of the VM listing at this offset, with the total_matches the
\* remote reports.
VmListBody(off) ==
  LET page == ListBody(r_vms, off, length, r_page)
  IN  CASE r_total = "exact"   -> page
        [] r_total = "missing" -> [entities |-> page.entities]
        [] r_total = "zero"    -> [page EXCEPT !.metadata.total_matches = 0]
        [] r_total = "over"    ->
             [page EXCEPT !.metadata.total_matches = Len(r_vms) + length]

\* files/v4.0/config/file-servers
FsListBody(servers) ==
  [data |-> [i \in 1..Len(servers) |-> [extId |-> servers[i].extId]]]

\* files/v4.0/stats/file-servers/{extId}
FsStatsBody(server) ==
  [data |-> [usedCapacityGiB |-> server.usedCapacityGiB]]

\* The remote's file server with this extId.
FsOf(extId) == r_fs[CHOOSE i \in 1..Len(r_fs) : r_fs[i].extId = extId]

\* A remote call as the log keeps it: the endpoint, whether it was answered
\* with HTTP 200, and the entities of the answer.
LogEntry(endpoint, outcome, body) ==
  [endpoint |-> endpoint, ok |-> (outcome = "200"),
   entities |-> IF outcome = "200" THEN Get(body, "entities", << >>) ELSE << >>]

\* The remote fails as many calls of a behaviour as faults_left allows.
Answers(outcomes) ==
  LET failed == Cardinality({ i \in 1..Len(outcomes) : outcomes[i] # "200" })
  IN  /\ faults_left < 0 \/ failed <= faults_left
      /\ faults_left' = IF faults_left < 0 THEN faults_left ELSE faults_left - failed

\* ------------------------------------------------------------- odd entities

\* The field of the entity is null or text that is no number: int(x),
\* x / 1024, x * 1024 and Gauge.set(x) raise TypeError or ValueError.
NotNumber(entity, field) == field \in Get(entity, "not_numbers", {})

\* The place of the first entity whose field is no number, or 0.
FirstOdd(entities, field) ==
  LET odd == { i \in 1..Len(entities) : NotNumber(entities[i], field) }
  IN  IF odd = {} THEN 0 ELSE CHOOSE i \in odd : \A j \in odd : i <= j

\* ------------------------------------------------ daily_export.py (export)

\* _make_request_v3 / _make_request_v4: the JSON body on 200, else None.
export_make_request(outcome, body) ==
  IF outcome = "200" THEN body ELSE None

\* get_clusters: the lookup after the cluster listing answered `data`.
get_clusters(map, data) ==
  IF Falsy(data) THEN map
  ELSE LET ents == Get(data, "entities", << >>)
           RECURSIVE fill(_, _)
           fill(m, i) ==
             IF i > Len(ents) THEN m
             ELSE LET uuid == Get(ents[i], "uuid", "")
                      name == Get(ents[i], "name", "unknown")
                  IN  fill([k \in DOMAIN m \cup {uuid} |->
                              IF k = uuid THEN name ELSE m[k]], i + 1)
       IN  fill(map, 1)

\* get_vms_turn without the `len(all_vms) >= total` break: the loop ends
\* only on an empty page or a failed request.
get_vms_turn_no_total(data, acc, off) ==
  IF Falsy(data) THEN [all |-> acc, offset |-> off, done |-> TRUE]
  ELSE LET vms == Get(data, "entities", << >>)
       IN  IF vms = << >> THEN [all |-> acc, offset |-> off, done |-> TRUE]
           ELSE [all |-> acc \o vms, offset |-> off + length, done |-> FALSE]

\* get_vms_turn without the `if not vms: break`: an empty page does not end
\* the loop.
get_vms_turn_no_empty_break(data, acc, off) ==
  IF Falsy(data) THEN [all |-> acc, offset |-> off, done |-> TRUE]
  ELSE LET acc2  == acc \o Get(data, "entities", << >>)
           total == Get(Get(data, "metadata", << >>), "total_matches", 0)
       IN  IF Len(acc2) >= total
           THEN [all |-> acc2, offset |-> off, done |-> TRUE]
           ELSE [all |-> acc2, offset |-> off + length, done |-> FALSE]

\* get_vms_turn with `continue` for `break` on a failed request: the page
\* is skipped and the next one requested.
get_vms_turn_continue(data, acc, off) ==
  IF Falsy(data) THEN [all |-> acc, offset |-> off + length, done |-> FALSE]
  ELSE LET vms == Get(data, "entities", << >>)
       IN  IF vms = << >> THEN [all |-> acc, offset |-> off, done |-> TRUE]
           ELSE LET acc2  == acc \o vms
                    total == Get(Get(data, "metadata", << >>), "total_matches", 0)
                IN  IF Len(acc2) >= total
                    THEN [all |-> acc2, offset |-> off, done |-> TRUE]
                    ELSE [all |-> acc2, offset |-> off + length, done |-> FALSE]

\* One turn of the `while True` loop of get_vms, after the request answered
\* `data`: the accumulated list, the next offset, and whether the loop ended.
get_vms_turn(data, acc, off) ==
  IF Falsy(data) THEN [all |-> acc, offset |-> off, done |-> TRUE]
  ELSE LET vms == Get(data, "entities", << >>)
       IN  IF vms = << >> THEN [all |-> acc, offset |-> off, done |-> TRUE]
           ELSE LET acc2  == acc \o vms
                    total == Get(Get(data, "metadata", << >>), "total_matches", 0)
                IN  IF Len(acc2) >= total
                    THEN [all |-> acc2, offset |-> off, done |-> TRUE]
                    ELSE [all |-> acc2, offset |-> off + length, done |-> FALSE]

\* export_to_csv: cluster name of a VM, the accountId of its rows.
export_cluster_name(map, cluster_ref) ==
  LET cluster_uuid == Get(cluster_ref, "uuid", "")
  IN  Get(map, cluster_uuid, ACCOUNT_ID)

\* total_disk_bytes with disk_size_mib taken as KiB (* 1024 once).
RECURSIVE total_disk_bytes_kib(_)
total_disk_bytes_kib(disk_list) ==
  IF disk_list = << >> THEN 0
  ELSE LET disk == Head(disk_list)
           disk_size == Get(disk, "disk_size_bytes", 0)
       IN  (IF disk_size # 0 THEN disk_size
            ELSE Get(disk, "disk_size_mib", 0) * 1024)
           + total_disk_bytes_kib(Tail(disk_list))

\* The disk bytes of a disk list (the loop over disk_list).
RECURSIVE total_disk_bytes(_)
total_disk_bytes(disk_list) ==
  IF disk_list = << >> THEN 0
  ELSE LET disk == Head(disk_list)
           disk_size == Get(disk, "disk_size_bytes", 0)
       IN  (IF disk_size # 0 THEN disk_size
            ELSE Get(disk, "disk_size_mib", 0) * 1024 * 1024)
           + total_disk_bytes(Tail(disk_list))

\* export_vm_rows with rows of quantity 0 left out.
export_vm_rows_skip_zero(vm, map, n) ==
  LET cluster_name == Get(map, Get(Get(vm, "cluster_reference", << >>), "uuid", ""),
                          ACCOUNT_ID)
      vm_uuid      == Get(vm, "uuid", "")
      total_vcpus  == Get(vm, "num_sockets", 1) * Get(vm, "num_vcpus_per_socket", 1)
      memory_gb    == RoundHalfEven(Get(vm, "memory_size_mib", 0) * 100, 1024)
      row(item, qty, k) ==
        [accountId |-> cluster_name, qty |-> qty, meteredItem |-> item,
         sno |-> k, type |-> "VM", guid |-> vm_uuid]
      disk_gb      == RoundHalfEven(total_disk_bytes(Get(vm, "disk_list", << >>)) * 100,
                                    1024 * 1024 * 1024)
  IN  (IF total_vcpus = 0 THEN << >> ELSE << row("vCPU", total_vcpus * 100, n) >>)
      \o (IF memory_gb = 0 THEN << >> ELSE << row("Memory_GB", memory_gb, n + 1) >>)
      \o (IF disk_gb = 0 THEN << >> ELSE << row("Storage_GB", disk_gb, n + 2) >>)

\* The three rows of one VM; qty is in hundredths (two decimals).
export_vm_rows(vm, map, n) ==
  LET cluster_name == export_cluster_name(map, Get(vm, "cluster_reference", << >>))
      vm_uuid      == Get(vm, "uuid", "")
      total_vcpus  == Get(vm, "num_sockets", 1) * Get(vm, "num_vcpus_per_socket", 1)
      memory_gb    == RoundHalfEven(Get(vm, "memory_size_mib", 0) * 100, 1024)
      disk_gb      == RoundHalfEven(total_disk_bytes(Get(vm, "disk_list", << >>)) * 100,
                                    1024 * 1024 * 1024)
      row(item, qty, k) ==
        [accountId |-> cluster_name, qty |-> qty, meteredItem |-> item,
         sno |-> k, type |-> "VM", guid |-> vm_uuid]
  IN  << row("vCPU", total_vcpus * 100, n),
         row("Memory_GB", memory_gb, n + 1),
         row("Storage_GB", disk_gb, n + 2) >>

\* The `for vm in vms` loop of export_to_csv: the rows and the next sno.
RECURSIVE export_all_vm_rows(_, _, _)
export_all_vm_rows(vms, map, n) ==
  IF vms = << >> THEN [rows |-> << >>, sno |-> n]
  ELSE LET rest == export_all_vm_rows(Tail(vms), map, n + 3)
       IN  [rows |-> export_vm_rows(Head(vms), map, n) \o rest.rows, sno |-> rest.sno]

\* export_fs_rows with `sno += 1` outside the `if used_bytes > 0`.
RECURSIVE export_fs_rows_gap(_, _)
export_fs_rows_gap(servers, n) ==
  IF servers = << >> THEN [rows |-> << >>, sno |-> n]
  ELSE LET fs   == Head(servers)
           used == Get(fs, "used_gib", 0)
           rest == export_fs_rows_gap(Tail(servers), n + 1)
       IN  IF used > 0
           THEN [rows |-> << [accountId |-> ACCOUNT_ID,
                              qty |-> RoundHalfEven(used * 10000, 1024),
                              meteredItem |-> "Files_TiB", sno |-> n,
                              type |-> "FileServer", guid |-> Get(fs, "uuid", "")] >>
                          \o rest.rows,
                 sno |-> rest.sno]
           ELSE rest

\* export_fs_rows without the `if used_bytes > 0`: a row for every file
\* server.
RECURSIVE export_fs_rows_always(_, _)
export_fs_rows_always(servers, n) ==
  IF servers = << >> THEN [rows |-> << >>, sno |-> n]
  ELSE LET fs   == Head(servers)
           used == Get(fs, "used_gib", 0)
           rest == export_fs_rows_always(Tail(servers), n + 1)
       IN  [rows |-> << [accountId |-> ACCOUNT_ID,
                         qty |-> RoundHalfEven(used * 10000, 1024),
                         meteredItem |-> "Files_TiB", sno |-> n,
                         type |-> "FileServer", guid |-> Get(fs, "uuid", "")] >>
                     \o rest.rows,
            sno |-> rest.sno]

\* The `for fs in file_servers` loop: one Files_TiB row per file server with
\* used bytes > 0; qty is in ten-thousandths of a TiB (four decimals).
RECURSIVE export_fs_rows(_, _)
export_fs_rows(servers, n) ==
  IF servers = << >> THEN [rows |-> << >>, sno |-> n]
  ELSE LET fs       == Head(servers)
           used     == Get(fs, "used_gib", 0)
           used_tib == RoundHalfEven(used * 10000, 1024)
       IN  IF used > 0
           THEN LET rest == export_fs_rows(Tail(servers), n + 1)
                IN  [rows |-> << [accountId |-> ACCOUNT_ID, qty |-> used_tib,
                                  meteredItem |-> "Files_TiB", sno |-> n,
                                  type |-> "FileServer", guid |-> Get(fs, "uuid", "")] >>
                              \o rest.rows,
                     sno |-> rest.sno]
           ELSE export_fs_rows(Tail(servers), n)

\* get_file_servers, after one stats call answered `stats_data`.
get_file_servers_turn(result, fs, stats_data) ==
  IF ~Falsy(stats_data)
  THEN LET stats == Get(stats_data, "data", << >>)
       IN  Append(result, [uuid |-> Get(fs, "extId", ""),
                           used_gib |-> Get(stats, "usedCapacityGiB", 0)])
  ELSE result

\* WriteCsv with the file-server rows put before the VM rows.
WriteCsv_fs_first(servers) ==
  LET fsr == export_fs_rows(servers, sno)
  IN  /\ rows' = fsr.rows \o rows
      /\ sno' = fsr.sno
      /\ csvfile' = [written |-> TRUE, header |-> fieldnames, rows |-> fsr.rows \o rows]
      /\ output_file' = OutputPath
      /\ pc' = "done"

\* The end of export_to_csv: the file-server rows, the file, the return value.
WriteCsv(servers) ==
  LET fsr == export_fs_rows(servers, sno)
  IN  /\ rows' = rows \o fsr.rows
      /\ sno' = fsr.sno
      /\ csvfile' = [written |-> TRUE, header |-> fieldnames, rows |-> rows \o fsr.rows]
      /\ output_file' = OutputPath
      /\ pc' = "done"

\* export_clusters without the call of get_clusters: the VM listing starts
\* with no cluster listing before it.
export_clusters_no_call ==
  /\ program = "export" /\ pc = "clusters"
  /\ pc' = "vms"
  /\ UNCHANGED <<pricing_vars, program, remote, cluster_map, all_vms, offset, fs_todo, reqlog,
                 export_vars, gauges, counters, faults_left, main_vars>>

\* export_to_csv up to and including get_clusters.
export_clusters ==
  /\ program = "export" /\ pc = "clusters"
  /\ \E outcome \in Outcomes :
       LET body == [entities |-> r_clusters]
           data == export_make_request(outcome, body)
       IN  /\ Answers(<< outcome >>)
           /\ cluster_map' = get_clusters(cluster_map, data)
           /\ reqlog' = Append(reqlog, LogEntry("clusters/list", outcome, body))
  /\ pc' = "vms"
  /\ UNCHANGED <<pricing_vars, program, remote, all_vms, offset, fs_todo, export_vars, gauges,
                 counters, main_vars>>

\* export_vms without the `if not vms: return None`: with no VMs the export
\* goes on to the file servers and writes a file.
export_vms_no_return ==
  /\ program = "export" /\ pc = "vms"
  /\ \E outcome \in Outcomes :
       LET body == VmListBody(offset)
           data == export_make_request(outcome, body)
           turn == get_vms_turn(data, all_vms, offset)
           vmr  == export_all_vm_rows(turn.all, cluster_map, 1)
       IN  /\ Answers(<< outcome >>)
           /\ all_vms' = turn.all
           /\ offset' = turn.offset
           /\ reqlog' = Append(reqlog, LogEntry("vms/list", outcome, body))
           /\ IF ~turn.done
              THEN /\ pc' = "vms"
                   /\ UNCHANGED <<rows, sno, output_file>>
              ELSE IF FirstOdd(turn.all, "memory_size_mib") # 0
              THEN /\ pc' = "raised"
                   /\ UNCHANGED <<rows, sno, output_file>>
              ELSE /\ pc' = "fs_list"
                   /\ rows' = vmr.rows
                   /\ sno' = vmr.sno
                   /\ UNCHANGED output_file
  /\ UNCHANGED <<pricing_vars, program, remote, cluster_map, fs_todo, file_servers, csvfile, gauges,
                 counters, main_vars>>

\* One vms/list request of get_vms; when the loop ends, export_to_csv goes
\* on: no VMs, return None; else the VM rows, unless `memory_mib / 1024`
\* raises for a VM, which ends export_to_csv with the exception.
export_vms ==
  /\ program = "export" /\ pc = "vms"
  /\ \E outcome \in Outcomes :
       LET body == VmListBody(offset)
           data == export_make_request(outcome, body)
           turn == get_vms_turn(data, all_vms, offset)
           vmr  == export_all_vm_rows(turn.all, cluster_map, 1)
       IN  /\ Answers(<< outcome >>)
           /\ all_vms' = turn.all
           /\ offset' = turn.offset
           /\ reqlog' = Append(reqlog, LogEntry("vms/list", outcome, body))
           /\ IF ~turn.done
              THEN /\ pc' = "vms"
                   /\ UNCHANGED <<rows, sno, output_file>>
              ELSE IF turn.all = << >>
              THEN /\ pc' = "done"
                   /\ output_file' = NoFile
                   /\ UNCHANGED <<rows, sno>>
              ELSE IF FirstOdd(turn.all, "memory_size_mib") # 0
              THEN /\ pc' = "raised"
                   /\ UNCHANGED <<rows, sno, output_file>>
              ELSE /\ pc' = "fs_list"
                   /\ rows' = vmr.rows
                   /\ sno' = vmr.sno
                   /\ UNCHANGED output_file
  /\ UNCHANGED <<pricing_vars, program, remote, cluster_map, fs_todo, file_servers, csvfile, gauges,
                 counters, main_vars>>

\* get_file_servers: the list call; with nothing to ask stats for,
\* export_to_csv goes on to write the file.
export_fs_list ==
  /\ program = "export" /\ pc = "fs_list"
  /\ \E outcome \in Outcomes :
       LET body == FsListBody(r_fs)
           data == export_make_request(outcome, body)
           todo == IF Falsy(data) THEN << >> ELSE Get(data, "data", << >>)
       IN  /\ Answers(<< outcome >>)
           /\ reqlog' = Append(reqlog, LogEntry("file-servers", outcome, body))
           /\ fs_todo' = todo
           /\ IF todo = << >>
              THEN WriteCsv(file_servers)
              ELSE /\ pc' = "fs_stats"
                   /\ UNCHANGED <<rows, sno, csvfile, output_file>>
  /\ UNCHANGED <<pricing_vars, program, remote, cluster_map, all_vms, offset, file_servers, gauges,
                 counters, main_vars>>

\* get_file_servers: one stats call; after the last, export_to_csv writes
\* the file.
export_fs_stats ==
  /\ program = "export" /\ pc = "fs_stats"
  /\ \E outcome \in Outcomes :
       LET fs     == Head(fs_todo)
           body   == FsStatsBody(FsOf(fs.extId))
           data   == export_make_request(outcome, body)
           result == get_file_servers_turn(file_servers, fs, data)
       IN  /\ Answers(<< outcome >>)
           /\ reqlog' = Append(reqlog, LogEntry("file-servers/stats", outcome, body))
           /\ file_servers' = result
           /\ fs_todo' = Tail(fs_todo)
           /\ IF Tail(fs_todo) = << >>
              THEN WriteCsv(result)
              ELSE /\ pc' = "fs_stats"
                   /\ UNCHANGED <<rows, sno, csvfile, output_file>>
  /\ UNCHANGED <<pricing_vars, program, remote, cluster_map, all_vms, offset, gauges, counters,
                 main_vars>>

\* --------------------------------------------- nutanix_exporter.py (collect)

\* _make_request_v2 / _v3 / _v4: the JSON body on 200, else None.
collect_make_request(outcome, body) ==
  IF outcome = "200" THEN body ELSE None

\* Publish with inc() for set(): a written value is added to the series.
Publish_add(gauge, labels, values) ==
  LET last(k) == CHOOSE i \in 1..Len(labels) :
                   /\ labels[i] = k
                   /\ \A j \in (i + 1)..Len(labels) : labels[j] # k
      written == { labels[i] : i \in 1..Len(labels) }
  IN  [k \in DOMAIN gauge \cup written |->
         IF k \in written THEN Get(gauge, k, 0) + values[last(k)] ELSE gauge[k]]

\* Publish after a clear() of the gauge: only the series written now stay.
Publish_fresh(gauge, labels, values) ==
  LET last(k) == CHOOSE i \in 1..Len(labels) :
                   /\ labels[i] = k
                   /\ \A j \in (i + 1)..Len(labels) : labels[j] # k
      written == { labels[i] : i \in 1..Len(labels) }
  IN  [k \in written |-> values[last(k)]]

\* Gauge.labels(...).set(...) for a run of label sets: the last write of a
\* label set wins, every other series keeps its value.
Publish(gauge, labels, values) ==
  LET last(k) == CHOOSE i \in 1..Len(labels) :
                   /\ labels[i] = k
                   /\ \A j \in (i + 1)..Len(labels) : labels[j] # k
      written == { labels[i] : i \in 1..Len(labels) }
  IN  [k \in DOMAIN gauge \cup written |->
         IF k \in written THEN values[last(k)] ELSE gauge[k]]

\* api_status with every answered call a success, whatever its HTTP status.
api_status_any_response(outcome) ==
  IF outcome = "exception" THEN "error" ELSE "success"

\* The status label _make_request_v2 / _v3 / _v4 count a call under.
api_status(outcome) == IF outcome = "200" THEN "success" ELSE "error"

\* Counter.labels(...).inc() for a run of label sets.
Inc(counter, labels) ==
  [k \in DOMAIN counter \cup { labels[i] : i \in 1..Len(labels) } |->
     Get(counter, k, 0) + Cardinality({ i \in 1..Len(labels) : labels[i] = k })]

\* api_requests_total after the calls of these endpoints came to these
\* outcomes.
collect_counted(endpoints, outcomes) ==
  api_requests_total' =
    Inc(api_requests_total,
        [i \in 1..Len(endpoints) |-> << endpoints[i], api_status(outcomes[i]) >>])

\* The endpoint of the stats call of a file server.
fs_stats_endpoint(fs) == "files/v4.0/stats/file-servers/" \o Get(fs, "extId", "unknown")

\* collect_clusters: the lookup built from the v3 listing, then filled up
\* from the v2 listing.
collect_clusters_map(v2_data, v3_data) ==
  LET RECURSIVE from_v3(_, _, _)
      from_v3(m, ents, i) ==
        IF i > Len(ents) THEN m
        ELSE LET cluster_uuid == Get(ents[i], "uuid", "")
                 cluster_name == Get(ents[i], "name", "unknown")
             IN  from_v3([k \in DOMAIN m \cup {cluster_uuid} |->
                            IF k = cluster_uuid THEN cluster_name ELSE m[k]],
                         ents, i + 1)
      RECURSIVE from_v2(_, _, _)
      from_v2(m, ents, i) ==
        IF i > Len(ents) THEN m
        ELSE LET cluster_uuid == Get(ents[i], "uuid",
                                     Get(ents[i], "cluster_uuid", "unknown"))
                 cluster_name == Get(ents[i], "name", "unknown")
             IN  from_v2(IF cluster_uuid \in DOMAIN m THEN m
                         ELSE [k \in DOMAIN m \cup {cluster_uuid} |->
                                 IF k = cluster_uuid THEN cluster_name ELSE m[k]],
                         ents, i + 1)
      m3 == IF Falsy(v3_data) THEN << >>
            ELSE from_v3(<< >>, Get(v3_data, "entities", << >>), 1)
  IN  IF Falsy(v2_data) THEN m3
      ELSE from_v2(m3, Get(v2_data, "entities", << >>), 1)

\* collect_vms: total_disk_size of a disk list (the loop over disk_list).
RECURSIVE total_disk_size(_)
total_disk_size(disk_list) ==
  IF disk_list = << >> THEN 0
  ELSE LET disk == Head(disk_list)
           disk_size == Get(disk, "disk_size_bytes", 0)
       IN  (IF disk_size # 0 THEN disk_size
            ELSE Get(disk, "disk_size_mib", 0) * 1024 * 1024)
           + total_disk_size(Tail(disk_list))

\* One turn of the `while True` loop of collect_vms.
collect_vms_turn(data, acc, off) ==
  IF Falsy(data) THEN [all |-> acc, offset |-> off, done |-> TRUE]
  ELSE LET vms == Get(data, "entities", << >>)
       IN  IF vms = << >> THEN [all |-> acc, offset |-> off, done |-> TRUE]
           ELSE LET acc2  == acc \o vms
                    total == Get(Get(data, "metadata", << >>), "total_matches", 0)
                IN  IF Len(acc2) >= total
                    THEN [all |-> acc2, offset |-> off, done |-> TRUE]
                    ELSE [all |-> acc2, offset |-> off + length, done |-> FALSE]

\* collect_vms / collect_hosts: cluster name of a VM or host.
collect_cluster_name(map, cluster_ref) ==
  LET cluster_uuid == Get(cluster_ref, "uuid", "")
  IN  Get(map, cluster_uuid, Get(cluster_ref, "name", "unknown"))

\* The cluster names the entities of a listing resolve to, in order.
ClusterNames(map, entities) ==
  [i \in 1..Len(entities) |->
     collect_cluster_name(map, Get(entities[i], "cluster_reference", << >>))]

\* Counts with `counts.get(cluster_name, 1) + 1`: every count one too high.
Counts_from_one(names) ==
  [c \in { names[i] : i \in 1..Len(names) } |->
     Cardinality({ i \in 1..Len(names) : names[i] = c }) + 1]

\* vm_counts / host_counts: entities per cluster name.
Counts(names) ==
  [c \in { names[i] : i \in 1..Len(names) } |->
     Cardinality({ i \in 1..Len(names) : names[i] = c })]

\* The label sets (name, uuid, cluster_name) of the entities of a listing.
EntityLabels(map, entities) ==
  [i \in 1..Len(entities) |->
     << Get(entities[i], "name", "unknown"), Get(entities[i], "uuid", "unknown"),
        ClusterNames(map, entities)[i] >>]

\* collect_hosts: the hosts of the answer; None leaves everything as it is.
collect_hosts_list(data) ==
  IF Falsy(data) THEN << >> ELSE Get(data, "entities", << >>)

\* collect_file_servers: the used-bytes gauge after one stats call.
collect_fs_used(gauge, fs, stats_data) ==
  IF Falsy(stats_data) THEN gauge
  ELSE LET stats == Get(stats_data, "data", << >>)
           used  == Get(stats, "usedCapacityGiB", 0)
           label == << Get(fs, "name", "unknown"), Get(fs, "extId", "unknown") >>
       IN  IF used # 0 THEN Publish(gauge, << label >>, << used >>) ELSE gauge

\* collect_all up to and including collect_clusters (its v2 and v3 calls);
\* int(stats.get('hypervisor_cpu_usage_ppm', 0)) raises for a v2 entity
\* whose field is no number, and collect_clusters ends with the exception.
collect_clusters ==
  /\ program = "collect" /\ pc = "clusters"
  /\ \E o2 \in Outcomes, o3 \in Outcomes :
       LET body    == [entities |-> r_clusters]
           v2_data == collect_make_request(o2, body)
           v3_data == collect_make_request(o3, body)
           odd     == IF Falsy(v2_data) THEN 0
                      ELSE FirstOdd(Get(v2_data, "entities", << >>),
                                    "hypervisor_cpu_usage_ppm")
       IN  /\ Answers(<< o2, o3 >>)
           /\ collect_counted(<< "clusters", "clusters/list" >>, << o2, o3 >>)
           /\ reqlog' = reqlog \o << LogEntry("clusters", o2, body),
                                     LogEntry("clusters/list", o3, body) >>
           /\ IF odd # 0
              THEN /\ pc' = "raised"
                   /\ UNCHANGED cluster_map
              ELSE /\ pc' = "vms"
                   /\ cluster_map' = collect_clusters_map(v2_data, v3_data)
  /\ UNCHANGED <<pricing_vars, program, remote, all_vms, offset, fs_todo, export_vars, gauges,
                 main_vars>>

\* One vms/list request of collect_vms; when the loop ends, the VM gauges
\* are set, up to the power state of the first VM for which
\* `memory_mib * 1024 * 1024` or the gauge's set() raises.
collect_vms ==
  /\ program = "collect" /\ pc = "vms"
  /\ \E outcome \in Outcomes :
       LET body   == VmListBody(offset)
           data   == collect_make_request(outcome, body)
           turn   == collect_vms_turn(data, all_vms, offset)
           labels == EntityLabels(cluster_map, turn.all)
           power  == [i \in 1..Len(turn.all) |->
                        IF Get(turn.all[i], "power_state", "UNKNOWN") = "ON"
                        THEN 1 ELSE 0]
           odd    == FirstOdd(turn.all, "memory_size_mib")
           ids    == [i \in 1..Len(turn.all) |->
                        << Get(turn.all[i], "name", "unknown"),
                           Get(turn.all[i], "uuid", "unknown") >>]
           disks  == [i \in 1..Len(turn.all) |->
                        total_disk_size(Get(turn.all[i], "disk_list", << >>))]
       IN  /\ Answers(<< outcome >>)
           /\ collect_counted(<< "vms/list" >>, << outcome >>)
           /\ all_vms' = turn.all
           /\ offset' = turn.offset
           /\ reqlog' = Append(reqlog, LogEntry("vms/list", outcome, body))
           /\ IF ~turn.done
              THEN /\ pc' = "vms"
                   /\ UNCHANGED <<vm_count, vm_power_state, vm_disk_size_bytes>>
              ELSE IF odd # 0
              THEN /\ pc' = "raised"
                   /\ vm_power_state' = Publish(vm_power_state, SubSeq(labels, 1, odd),
                                                SubSeq(power, 1, odd))
                   /\ vm_disk_size_bytes' =
                        Publish(vm_disk_size_bytes, SubSeq(ids, 1, odd - 1),
                                SubSeq(disks, 1, odd - 1))
                   /\ UNCHANGED vm_count
              ELSE /\ pc' = "hosts"
                   /\ vm_power_state' = Publish(vm_power_state, labels, power)
                   /\ vm_disk_size_bytes' = Publish(vm_disk_size_bytes, ids, disks)
                   /\ vm_count' =
                        LET counts == Counts(ClusterNames(cluster_map, turn.all))
                        IN  [c \in DOMAIN vm_count \cup DOMAIN counts |->
                               IF c \in DOMAIN counts THEN counts[c] ELSE vm_count[c]]
  /\ UNCHANGED <<pricing_vars, program, remote, cluster_map, fs_todo, export_vars, host_count,
                 host_physical_cpu_cores, file_server_used, main_vars>>

\* collect_hosts: its one hosts/list request and the host gauges, up to the
\* first host for which `cpu_usage_ppm / 10000` raises.
collect_hosts ==
  /\ program = "collect" /\ pc = "hosts"
  /\ \E outcome \in Outcomes :
       LET body   == ListBody(r_hosts, 0, length, r_page)
           data   == collect_make_request(outcome, body)
           hosts  == collect_hosts_list(data)
           labels == EntityLabels(cluster_map, hosts)
           cores  == [i \in 1..Len(hosts) |-> Get(hosts[i], "num_cpu_cores", 0)]
           counts == Counts(ClusterNames(cluster_map, hosts))
           odd    == FirstOdd(hosts, "cpu_usage_ppm")
       IN  /\ Answers(<< outcome >>)
           /\ collect_counted(<< "hosts/list" >>, << outcome >>)
           /\ reqlog' = Append(reqlog, LogEntry("hosts/list", outcome, body))
           /\ IF odd # 0
              THEN /\ pc' = "raised"
                   /\ host_physical_cpu_cores' =
                        Publish(host_physical_cpu_cores, SubSeq(labels, 1, odd - 1),
                                SubSeq(cores, 1, odd - 1))
                   /\ UNCHANGED host_count
              ELSE /\ pc' = "storage"
                   /\ host_physical_cpu_cores' =
                        Publish(host_physical_cpu_cores, labels, cores)
                   /\ host_count' =
                        [c \in DOMAIN host_count \cup DOMAIN counts |->
                           IF c \in DOMAIN counts THEN counts[c] ELSE host_count[c]]
  /\ UNCHANGED <<pricing_vars, program, remote, cluster_map, all_vms, offset, fs_todo, export_vars,
                 vm_count, vm_power_state, file_server_used, vm_disk_size_bytes,
                 main_vars>>

\* collect_storage_containers raising on a failed request: collect_all
\* catches it and the pass ends there.
collect_storage_containers_raise ==
  /\ program = "collect" /\ pc = "storage"
  /\ \E outcome \in Outcomes :
       /\ Answers(<< outcome >>)
       /\ collect_counted(<< "storage_containers" >>, << outcome >>)
       /\ reqlog' = Append(reqlog, LogEntry("storage_containers", outcome,
                                            [entities |-> << >>]))
       /\ pc' = IF outcome = "200" THEN "fs_list" ELSE "done"
  /\ UNCHANGED <<pricing_vars, program, remote, cluster_map, all_vms, offset, fs_todo, export_vars,
                 gauges, main_vars>>

\* collect_storage_containers: its one request.
collect_storage_containers ==
  /\ program = "collect" /\ pc = "storage"
  /\ \E outcome \in Outcomes :
       /\ Answers(<< outcome >>)
       /\ collect_counted(<< "storage_containers" >>, << outcome >>)
       /\ reqlog' = Append(reqlog, LogEntry("storage_containers", outcome,
                                            [entities |-> << >>]))
  /\ pc' = "fs_list"
  /\ UNCHANGED <<pricing_vars, program, remote, cluster_map, all_vms, offset, fs_todo, export_vars,
                 gauges, main_vars>>

\* collect_file_servers: the list call.
collect_fs_list ==
  /\ program = "collect" /\ pc = "fs_list"
  /\ \E outcome \in Outcomes :
       LET body == FsListBody(r_fs)
           data == collect_make_request(outcome, body)
           todo == IF Falsy(data) THEN << >> ELSE Get(data, "data", << >>)
       IN  /\ Answers(<< outcome >>)
           /\ collect_counted(<< "files/v4.0/config/file-servers" >>, << outcome >>)
           /\ reqlog' = Append(reqlog, LogEntry("file-servers", outcome, body))
           /\ fs_todo' = todo
           /\ pc' = IF todo = << >> THEN "done" ELSE "fs_stats"
  /\ UNCHANGED <<pricing_vars, program, remote, cluster_map, all_vms, offset, export_vars, gauges,
                 main_vars>>

\* collect_file_servers: one stats call.
collect_fs_stats ==
  /\ program = "collect" /\ pc = "fs_stats"
  /\ \E outcome \in Outcomes :
       LET fs   == Head(fs_todo)
           body == FsStatsBody(FsOf(fs.extId))
           data == collect_make_request(outcome, body)
       IN  /\ Answers(<< outcome >>)
           /\ collect_counted(<< fs_stats_endpoint(fs) >>, << outcome >>)
           /\ reqlog' = Append(reqlog, LogEntry("file-servers/stats", outcome, body))
           /\ file_server_used' = collect_fs_used(file_server_used, fs, data)
  /\ fs_todo' = Tail(fs_todo)
  /\ pc' = IF Tail(fs_todo) = << >> THEN "done" ELSE "fs_stats"
  /\ UNCHANGED <<pricing_vars, program, remote, cluster_map, all_vms, offset, export_vars,
                 vm_count, host_count, vm_power_state, host_physical_cpu_cores,
                 vm_disk_size_bytes, main_vars>>

\* ------------------------------------------------------------ specification

Init ==
  /\ program \in {"export", "collect"}
  /\ pc = "clusters"
  /\ r_clusters \in ClusterLists
  /\ r_vms \in Inventories(VmCatalog, {0, 2}, MaxVms)
  /\ r_hosts \in Inventories(HostCatalog, {0}, MaxHosts)
  /\ r_fs \in Inventories(FsCatalog, {0, 1}, MaxFs)
  /\ r_page \in {length - 1, length}
  /\ r_total = "exact"
  /\ cluster_map = << >>
  /\ all_vms = << >>
  /\ offset = 0
  /\ rows = << >>
  /\ sno = 1
  /\ file_servers = << >>
  /\ fs_todo = << >>
  /\ csvfile = [written |-> FALSE]
  /\ output_file = NoFile
  /\ reqlog = << >>
  /\ vm_count = << >>
  /\ host_count = << >>
  /\ vm_power_state = << >>
  /\ host_physical_cpu_cores = << >>
  /\ file_server_used = << >>
  /\ vm_disk_size_bytes = << >>
  /\ api_requests_total = << >>
  /\ faults_left = -1
  /\ loop = "once"
  /\ passes = 1
  /\ in_progress = 1
  /\ raised = FALSE
  /\ run_now = FALSE
  /\ started = 0
  /\ now = 0
  /\ next_run = 0
  /\ prev = None
  /\ PricingAtStart

Next ==
  \/ export_clusters
  \/ export_vms
  \/ export_fs_list
  \/ export_fs_stats
  \/ collect_clusters
  \/ collect_vms
  \/ collect_hosts
  \/ collect_storage_containers
  \/ collect_fs_list
  \/ collect_fs_stats

Spec == Init /\ [][Next]_vars

\* --------------------------------------------------------- the main loops

pass_vars == <<pc, cluster_map, all_vms, offset, fs_todo, reqlog, export_vars>>

\* A pass starts: NutanixExporter() with its empty cluster_map, or
\* collect_all with its locals.  The file of an earlier pass stays.
StartPass ==
  /\ pc' = "clusters"
  /\ cluster_map' = << >>
  /\ all_vms' = << >>
  /\ offset' = 0
  /\ fs_todo' = << >>
  /\ reqlog' = << >>
  /\ rows' = << >>
  /\ sno' = 1
  /\ file_servers' = << >>
  /\ output_file' = NoFile
  /\ passes' = passes + 1
  /\ in_progress' = in_progress + 1
  /\ raised' = FALSE
  /\ UNCHANGED <<pricing_vars, program, remote, csvfile, gauges, counters, faults_left, run_now,
                 started, prev>>

\* What a pass leaves behind for the comparison with the next one.
PassRecord ==
  [remote |-> remote, reqlog |-> reqlog, gauges |-> gauges, raised |-> raised]

\* nutanix_exporter.main: collector.collect_all(), first before the loop and
\* then after every time.sleep(SCRAPE_INTERVAL).
collect_all_call ==
  /\ program = "collect" /\ loop \in {"main", "slept"}
  /\ passes < MaxPasses
  /\ StartPass
  /\ loop' = "pass"
  /\ UNCHANGED <<now, next_run>>

\* collect_all: `except Exception` ends the pass with a log line.
collect_all_except ==
  /\ program = "collect" /\ loop = "pass" /\ pc = "raised"
  /\ pc' = "done"
  /\ raised' = TRUE
  /\ UNCHANGED <<pricing_vars, program, remote, cluster_map, all_vms, offset, fs_todo, reqlog,
                 export_vars, gauges, counters, faults_left, loop, passes,
                 in_progress, run_now, started, now, next_run, prev>>

\* collect_all returns to the loop of main.
collect_all_return ==
  /\ program = "collect" /\ loop = "pass" /\ pc = "done"
  /\ in_progress' = in_progress - 1
  /\ loop' = "sleep"
  /\ prev' = PassRecord
  /\ UNCHANGED <<pricing_vars, program, remote, pass_vars, gauges, counters, faults_left, passes,
                 raised, run_now, started, now, next_run>>

\* time.sleep(SCRAPE_INTERVAL), during which the remote's inventory may
\* change.
collect_sleep ==
  /\ program = "collect" /\ loop = "sleep"
  /\ loop' = "slept"
  /\ \E r \in LoopRemotes :
       /\ r_clusters' = r.clusters
       /\ r_vms' = r.vms
       /\ r_hosts' = r.hosts
       /\ r_fs' = r.fs
  /\ UNCHANGED <<pricing_vars, program, r_page, r_total, pass_vars, gauges, counters, faults_left, passes,
                 in_progress, raised, run_now, started, now, next_run, prev>>

\* schedule's next run of a job `every().day.at(EXPORT_TIME)` reckoned at
\* time t: the first EXPORT_TIME after t.
NextOccurrence(t) ==
  LET today == (t \div DayLen) * DayLen + EXPORT_TIME
  IN  IF today > t THEN today ELSE today + DayLen

\* daily_export_scheduler.main: `if RUN_NOW: run_export()`.
main_run_now ==
  /\ program = "export" /\ loop = "main"
  /\ IF run_now
     THEN /\ passes < MaxPasses
          /\ StartPass
          /\ loop' = "run_now"
          /\ UNCHANGED <<now, next_run>>
     ELSE /\ loop' = "schedule"
          /\ UNCHANGED <<pricing_vars, program, remote, pass_vars, gauges, counters, faults_left,
                         passes, in_progress, raised, run_now, started, now,
                         next_run, prev>>

\* run_export without its try / except: the exception leaves main.
run_export_no_except ==
  /\ program = "export" /\ loop \in {"run_now", "job"} /\ pc = "raised"
  /\ loop' = "crashed"
  /\ raised' = TRUE
  /\ UNCHANGED <<pricing_vars, program, remote, pass_vars, gauges, counters, faults_left, passes,
                 in_progress, run_now, started, now, next_run, prev>>

\* run_export: `except Exception` ends the pass with a log line.
run_export_except ==
  /\ program = "export" /\ loop \in {"run_now", "job"} /\ pc = "raised"
  /\ pc' = "done"
  /\ raised' = TRUE
  /\ UNCHANGED <<pricing_vars, program, remote, cluster_map, all_vms, offset, fs_todo, reqlog,
                 export_vars, gauges, counters, faults_left, loop, passes,
                 in_progress, run_now, started, now, next_run, prev>>

\* run_export returns: to main after the immediate run, or to the job,
\* which reckons its next run from the time it ended.
run_export_return ==
  /\ program = "export" /\ loop \in {"run_now", "job"} /\ pc = "done"
  /\ in_progress' = in_progress - 1
  /\ prev' = PassRecord
  /\ IF loop = "run_now"
     THEN /\ loop' = "schedule"
          /\ UNCHANGED next_run
     ELSE /\ loop' = "sleep"
          /\ next_run' = NextOccurrence(now)
  /\ UNCHANGED <<pricing_vars, program, remote, pass_vars, gauges, counters, faults_left, passes,
                 raised, run_now, started, now>>

\* schedule.every().day.at(EXPORT_TIME).do(run_export)
main_schedule ==
  /\ program = "export" /\ loop = "schedule"
  /\ next_run' = NextOccurrence(now)
  /\ loop' = "poll"
  /\ UNCHANGED <<pricing_vars, program, remote, pass_vars, gauges, counters, faults_left, passes,
                 in_progress, raised, run_now, started, now, prev>>

\* run_pending started on a timer of its own: a job that is due starts
\* also while the job before is running.
run_pending_threaded ==
  /\ program = "export" /\ loop \in {"poll", "job"}
  /\ IF now >= next_run
     THEN /\ passes < MaxPasses
          /\ StartPass
          /\ loop' = "job"
          /\ UNCHANGED <<now, next_run>>
     ELSE /\ loop = "poll"
          /\ loop' = "sleep"
          /\ UNCHANGED <<pricing_vars, program, remote, pass_vars, gauges, counters, faults_left,
                         passes, in_progress, raised, run_now, started, now,
                         next_run, prev>>

\* schedule.run_pending() in the loop of main: the job runs if it is due.
run_pending ==
  /\ program = "export" /\ loop = "poll"
  /\ IF now >= next_run
     THEN /\ passes < MaxPasses
          /\ StartPass
          /\ loop' = "job"
          /\ UNCHANGED <<now, next_run>>
     ELSE /\ loop' = "sleep"
          /\ UNCHANGED <<pricing_vars, program, remote, pass_vars, gauges, counters, faults_left,
                         passes, in_progress, raised, run_now, started, now,
                         next_run, prev>>

\* time.sleep(60) in the loop of main.
scheduler_sleep ==
  /\ program = "export" /\ loop = "sleep"
  /\ now < MaxTime
  /\ now' = now + 1
  /\ loop' = "poll"
  /\ UNCHANGED <<pricing_vars, program, remote, pass_vars, gauges, counters, faults_left, passes,
                 in_progress, raised, run_now, started, next_run, prev>>

\* Time passes while a pass of the scheduler waits for the remote.
time_passes ==
  /\ program = "export" /\ loop \in {"run_now", "job"}
  /\ pc \notin {"done", "raised"}
  /\ now < MaxTime
  /\ now' = now + 1
  /\ UNCHANGED <<pricing_vars, program, remote, pass_vars, gauges, counters, faults_left, loop,
                 passes, in_progress, raised, run_now, started, next_run, prev>>

InitLoop ==
  /\ program \in {"export", "collect"}
  /\ pc = "idle"
  /\ \E r \in LoopRemotes :
       /\ r_clusters = r.clusters
       /\ r_vms = r.vms
       /\ r_hosts = r.hosts
       /\ r_fs = r.fs
  /\ r_page = length
  /\ r_total = "exact"
  /\ cluster_map = << >>
  /\ all_vms = << >>
  /\ offset = 0
  /\ rows = << >>
  /\ sno = 1
  /\ file_servers = << >>
  /\ fs_todo = << >>
  /\ csvfile = [written |-> FALSE]
  /\ output_file = NoFile
  /\ reqlog = << >>
  /\ vm_count = << >>
  /\ host_count = << >>
  /\ vm_power_state = << >>
  /\ host_physical_cpu_cores = << >>
  /\ file_server_used = << >>
  /\ vm_disk_size_bytes = << >>
  /\ api_requests_total = << >>
  /\ faults_left = MaxFaults
  /\ loop = "main"
  /\ passes = 0
  /\ in_progress = 0
  /\ raised = FALSE
  /\ run_now \in IF program = "export" THEN BOOLEAN ELSE {FALSE}
  /\ started \in IF program = "export" THEN 0..(DayLen - 1) ELSE {0}
  /\ now = started
  /\ next_run = 0
  /\ prev = None
  /\ PricingAtStart

NextLoop ==
  \/ Next
  \/ collect_all_call
  \/ collect_all_except
  \/ collect_all_return
  \/ collect_sleep
  \/ main_run_now
  \/ run_export_except
  \/ run_export_return
  \/ main_schedule
  \/ run_pending
  \/ scheduler_sleep
  \/ time_passes

SpecLoop == InitLoop /\ [][NextLoop]_vars

\* ------------------------------------------------- the VM listing's totals

\* One pass against a remote that reports any total_matches.
InitPaging ==
  /\ program \in {"export", "collect"}
  /\ pc = "clusters"
  /\ r_clusters = << [uuid |-> "u1", name |-> "alpha"] >>
  /\ r_vms \in Inventories(VmCatalog, {0}, MaxVms)
  /\ r_hosts = << HostCatalog[1] >>
  /\ r_fs = << FsCatalog[1], FsCatalog[2] >>
  /\ r_page \in {length - 1, length}
  /\ r_total \in {"exact", "missing", "zero", "over"}
  /\ cluster_map = << >>
  /\ all_vms = << >>
  /\ offset = 0
  /\ rows = << >>
  /\ sno = 1
  /\ file_servers = << >>
  /\ fs_todo = << >>
  /\ csvfile = [written |-> FALSE]
  /\ output_file = NoFile
  /\ reqlog = << >>
  /\ vm_count = << >>
  /\ host_count = << >>
  /\ vm_power_state = << >>
  /\ host_physical_cpu_cores = << >>
  /\ file_server_used = << >>
  /\ vm_disk_size_bytes = << >>
  /\ api_requests_total = << >>
  /\ faults_left = MaxFaults
  /\ loop = "once"
  /\ passes = 1
  /\ in_progress = 1
  /\ raised = FALSE
  /\ run_now = FALSE
  /\ started = 0
  /\ now = 0
  /\ next_run = 0
  /\ prev = None
  /\ PricingAtStart

SpecPaging == InitPaging /\ [][Next]_vars

\* ----------------------------------------------------------- the pricing app

\* The most requests the app receives.
MaxRequests == 3

\* The price tables of the store.
Types == {"nci", "nus"}

\* A price record where a code is expected: the handlers never look inside
\* it, so it is written as one text that is no product code.
ItemAsCode == "{item}"

\* load_pricing's answer when PRICING_FILE does not exist.
EmptyPricing ==
  [nci |-> << >>, nus |-> << >>, active |-> [nci |-> "", nus |-> ""]]

\* load_pricing on this content of PRICING_FILE.
Loaded(file) == IF Falsy(file) THEN EmptyPricing ELSE file

load_pricing == Loaded(pricing_file)

\* d[k] = v and del d[k] on a dict.
Put(d, k, v) == [x \in DOMAIN d \cup {k} |-> IF x = k THEN v ELSE d[x]]

Del(d, k) == [x \in DOMAIN d \ {k} |-> d[x]]

\* str.lower on the type texts that occur.
Lower(text) ==
  CASE text = "NCI" -> "nci"
    [] text = "NUS" -> "nus"
    [] OTHER -> text

\* float(text) raises for this field.
float_raises(fields, field) == NotNumber(fields, field)

\* The rows of the uploaded files.
RowCatalog == <<
  [type |-> "nci", product_code |-> "A", hourly_rate |-> 2],
  [type |-> "NUS", product_code |-> "A", hourly_rate |-> 2, name |-> "n"],
  [type |-> "nci", product_code |-> "B", hourly_rate |-> 1],
  [type |-> "nci", product_code |-> "A", hourly_rate |-> 0,
   not_numbers |-> {"hourly_rate"}],
  [type |-> "other", product_code |-> "A", hourly_rate |-> 0,
   not_numbers |-> {"hourly_rate"}],
  [type |-> "nci", product_code |-> "", hourly_rate |-> 1],
  [product_code |-> "B", hourly_rate |-> 1]
>>

Form(kind, type, code) == [kind |-> kind, type |-> type, code |-> code]

Fields(type, code, rate) ==
  [kind |-> "add", type |-> type, code |-> code, name |-> "n",
   hourly_rate |-> rate, annual_rate |-> 0, unit |-> "core"]

Upload(reader) == [kind |-> "import", uploaded |-> TRUE, rows |-> reader]

\* The requests the app receives.
Requests ==
  { Fields("nci", "A", 1), Fields("nci", "B", 2), Fields("nus", "A", 1),
    Fields("active", "nci", 1),
    [Fields("nci", "A", 0) EXCEPT !.unit = "each"]
      @@ [not_numbers |-> {"hourly_rate"}],
    Form("delete", "nci", "A"), Form("delete", "nus", "A"),
    Form("set-active", "nci", "A"), Form("set-active", "nci", "B"),
    Form("set-active", "nus", "A"),
    Upload(<< RowCatalog[1], RowCatalog[2] >>),
    Upload(<< RowCatalog[3], RowCatalog[4] >>),
    Upload(<< RowCatalog[5], RowCatalog[6], RowCatalog[7], RowCatalog[3] >>),
    [kind |-> "import", uploaded |-> FALSE, rows |-> << >>],
    [kind |-> "metrics"] }

\* What a handler does with the pricing it loaded: the pricing it ends with,
\* whether it calls save_pricing, and its response.
Outcome(pricing, save, response) ==
  [pricing |-> pricing, save |-> save, response |-> response]

add_pricing_outcome(pricing, form) ==
  IF \/ float_raises(form, "hourly_rate") \/ float_raises(form, "annual_rate")
     \/ form.type \notin DOMAIN pricing
  THEN Outcome(pricing, FALSE, "500")
  ELSE LET item == [name |-> form.name, hourly_rate |-> form.hourly_rate,
                    annual_rate |-> form.annual_rate, unit |-> form.unit]
       IN  Outcome([pricing EXCEPT ![form.type] =
                      Put(@, form.code,
                          IF form.type = "active" THEN ItemAsCode ELSE item)],
                   TRUE, "success")

delete_pricing_outcome(pricing, form) ==
  IF form.type \notin DOMAIN pricing THEN Outcome(pricing, FALSE, "500")
  ELSE IF form.code \in DOMAIN pricing[form.type]
  THEN LET deleted == [pricing EXCEPT ![form.type] = Del(@, form.code)]
       IN  Outcome(IF /\ form.type \in DOMAIN deleted.active
                      /\ deleted.active[form.type] = form.code
                   THEN [deleted EXCEPT !.active[form.type] = ""]
                   ELSE deleted,
                   TRUE, "success")
  ELSE Outcome(pricing, FALSE, "error")

set_active_outcome(pricing, form) ==
  IF form.type \notin DOMAIN pricing THEN Outcome(pricing, FALSE, "500")
  ELSE IF form.code \in DOMAIN pricing[form.type]
  THEN LET chosen == [pricing EXCEPT !.active = Put(@, form.type, form.code)]
       IN  Outcome(chosen, TRUE, "success")
  ELSE Outcome(pricing, FALSE, "error")

\* The loop over the rows of import_csv: the pricing after the rows, and
\* whether a row raised.
RECURSIVE import_rows(_, _)
import_rows(pricing, reader) ==
  IF reader = << >> THEN [pricing |-> pricing, raised |-> FALSE]
  ELSE LET row   == Head(reader)
           ptype == Lower(Get(row, "type", ""))
           code  == Get(row, "product_code", "")
       IN  IF ptype \notin {"nci", "nus"} THEN import_rows(pricing, Tail(reader))
           ELSE IF code = "" THEN import_rows(pricing, Tail(reader))
           ELSE IF \/ float_raises(row, "hourly_rate")
                   \/ float_raises(row, "annual_rate")
           THEN [pricing |-> pricing, raised |-> TRUE]
           ELSE import_rows(
                  [pricing EXCEPT ![ptype] =
                     Put(@, code,
                         [name        |-> Get(row, "name", code),
                          hourly_rate |-> Get(row, "hourly_rate", 0),
                          annual_rate |-> Get(row, "annual_rate", 0),
                          unit        |-> Get(row, "unit",
                                              IF ptype = "nci" THEN "core"
                                              ELSE "TiB")])],
                  Tail(reader))

import_csv_outcome(pricing, upload) ==
  IF ~upload.uploaded THEN Outcome(pricing, FALSE, "error")
  ELSE LET read == import_rows(pricing, upload.rows)
       IN  IF read.raised THEN Outcome(pricing, FALSE, "error")
           ELSE Outcome(read.pricing, TRUE, "success")

\* The handler of each request.
handler_outcome(pricing, request) ==
  CASE request.kind = "add"        -> add_pricing_outcome(pricing, request)
    [] request.kind = "delete"     -> delete_pricing_outcome(pricing, request)
    [] request.kind = "set-active" -> set_active_outcome(pricing, request)
    [] request.kind = "import"     -> import_csv_outcome(pricing, request)
    [] request.kind = "metrics"    -> Outcome(pricing, FALSE, "200")

\* The labelled gauge of a price table after clear() and the .set of each
\* of its items.
hourly_rates(table) ==
  [k \in { <<code, table[code].name>> : code \in DOMAIN table } |->
     table[k[1]].hourly_rate]

\* update_prometheus_metrics: the gauges after it, and whether it raised
\* (`in` on a dict for a code that is a price record is a TypeError).
update_prometheus_metrics(pricing) ==
  LET active_nci_code == Get(pricing.active, "nci", "")
      active_nus_code == Get(pricing.active, "nus", "")
      nci_set == /\ active_nci_code # ""
                 /\ active_nci_code # ItemAsCode
                 /\ active_nci_code \in DOMAIN pricing.nci
      nus_set == /\ active_nci_code # ItemAsCode
                 /\ active_nus_code # ""
                 /\ active_nus_code # ItemAsCode
                 /\ active_nus_code \in DOMAIN pricing.nus
  IN  [nci_hourly_rate |-> hourly_rates(pricing.nci),
       nus_hourly_rate |-> hourly_rates(pricing.nus),
       active_nci_rate |-> IF nci_set
                           THEN pricing.nci[active_nci_code].hourly_rate
                           ELSE active_nci_rate,
       active_nus_rate |-> IF nus_set
                           THEN pricing.nus[active_nus_code].hourly_rate
                           ELSE active_nus_rate,
       raised |-> ItemAsCode \in {active_nci_code, active_nus_code}]

\* get_active_pricing.
NotSet ==
  [name |-> "Not Set", hourly_rate |-> 0, annual_rate |-> 0, unit |-> "N/A"]

get_active_pricing(pricing, ptype) ==
  LET active_code == Get(pricing.active, ptype, "")
      items       == Get(pricing, ptype, << >>)
  IN  IF active_code = ItemAsCode THEN [raised |-> TRUE]
      ELSE IF active_code # "" /\ active_code \in DOMAIN items
      THEN items[active_code]
      ELSE NotSet

\* A request arrives at a thread, and its handler calls load_pricing.
handler_load(i, request) ==
  /\ handlers[i].pc = "idle"
  /\ served < MaxRequests
  /\ served' = served + 1
  /\ handlers' = [handlers EXCEPT
                    ![i] = [pc |-> "loaded", request |-> request,
                            pricing |-> load_pricing, response |-> ""]]
  /\ UNCHANGED <<program, pc, remote, cluster_map, all_vms, offset, fs_todo,
                 reqlog, export_vars, gauges, counters, faults_left,
                 main_vars, pricing_file, pricing_gauges, base>>

\* The handler from its load to the write of PRICING_FILE in save_pricing,
\* or to its return when it does not save.
handler_write(i, out) ==
  /\ IF out.save
     THEN /\ pricing_file' = out.pricing
          /\ handlers' = [handlers EXCEPT
                            ![i].pc = "saved",
                            ![i].pricing = out.pricing,
                            ![i].response = out.response]
     ELSE /\ pricing_file' = pricing_file
          /\ handlers' = [handlers EXCEPT
                            ![i] = [pc |-> "done",
                                    request |-> handlers[i].request,
                                    response |-> out.response]]
  /\ UNCHANGED <<program, pc, remote, cluster_map, all_vms, offset, fs_todo,
                 reqlog, export_vars, gauges, counters, faults_left,
                 main_vars, pricing_gauges, served, base>>

add_pricing(i) ==
  /\ handlers[i].pc = "loaded"
  /\ handlers[i].request.kind = "add"
  /\ handler_write(i, add_pricing_outcome(handlers[i].pricing,
                                          handlers[i].request))

delete_pricing(i) ==
  /\ handlers[i].pc = "loaded"
  /\ handlers[i].request.kind = "delete"
  /\ handler_write(i, delete_pricing_outcome(handlers[i].pricing,
                                             handlers[i].request))

set_active(i) ==
  /\ handlers[i].pc = "loaded"
  /\ handlers[i].request.kind = "set-active"
  /\ handler_write(i, set_active_outcome(handlers[i].pricing,
                                         handlers[i].request))

import_csv(i) ==
  /\ handlers[i].pc = "loaded"
  /\ handlers[i].request.kind = "import"
  /\ handler_write(i, import_csv_outcome(handlers[i].pricing,
                                         handlers[i].request))

\* The gauges after update_prometheus_metrics(pricing).
set_gauges(updated) ==
  /\ nci_hourly_rate' = updated.nci_hourly_rate
  /\ nus_hourly_rate' = updated.nus_hourly_rate
  /\ active_nci_rate' = updated.active_nci_rate
  /\ active_nus_rate' = updated.active_nus_rate

\* save_pricing after its write: update_prometheus_metrics, and the
\* handler's response (import_csv catches what it raises).
save_pricing(i) ==
  /\ handlers[i].pc = "saved"
  /\ LET updated == update_prometheus_metrics(handlers[i].pricing)
     IN  /\ set_gauges(updated)
         /\ handlers' = [handlers EXCEPT
              ![i] = [pc |-> "done",
                      request |-> handlers[i].request,
                      response |->
                        IF ~updated.raised THEN handlers[i].response
                        ELSE IF handlers[i].request.kind = "import"
                        THEN "error" ELSE "500"]]
  /\ UNCHANGED <<program, pc, remote, cluster_map, all_vms, offset, fs_todo,
                 reqlog, export_vars, gauges, counters, faults_left,
                 main_vars, pricing_file, served, base>>

\* The /metrics handler after its load.
metrics(i) ==
  /\ handlers[i].pc = "loaded"
  /\ handlers[i].request.kind = "metrics"
  /\ LET updated == update_prometheus_metrics(handlers[i].pricing)
     IN  /\ set_gauges(updated)
         /\ handlers' = [handlers EXCEPT
              ![i] = [pc |-> "done",
                      request |-> handlers[i].request,
                      response |-> IF updated.raised THEN "500" ELSE "200"]]
  /\ UNCHANGED <<program, pc, remote, cluster_map, all_vms, offset, fs_todo,
                 reqlog, export_vars, gauges, counters, faults_left,
                 main_vars, pricing_file, served, base>>

\* No handler is between its load and its response.
Quiet == \A i \in Threads : handlers[i].pc \in {"idle", "done"}

\* The threads that have responded to the requests in hand.
Responded == { i \in Threads : handlers[i].pc = "done" }

\* The responses are out and the threads are free for the next requests.
handlers_return ==
  /\ Quiet
  /\ Responded # {}
  /\ handlers' = [i \in Threads |-> Idle]
  /\ base' = pricing_file
  /\ UNCHANGED <<program, pc, remote, cluster_map, all_vms, offset, fs_todo,
                 reqlog, export_vars, gauges, counters, faults_left,
                 main_vars, pricing_file, pricing_gauges, served>>

\* The app after `python app.py`: the metrics of a missing pricing file.
InitPricing ==
  /\ program = "pricing"
  /\ pc = "idle"
  /\ r_clusters = << >>
  /\ r_vms = << >>
  /\ r_hosts = << >>
  /\ r_fs = << >>
  /\ r_page = length
  /\ r_total = "exact"
  /\ cluster_map = << >>
  /\ all_vms = << >>
  /\ offset = 0
  /\ rows = << >>
  /\ sno = 1
  /\ file_servers = << >>
  /\ fs_todo = << >>
  /\ csvfile = [written |-> FALSE]
  /\ output_file = NoFile
  /\ reqlog = << >>
  /\ vm_count = << >>
  /\ host_count = << >>
  /\ vm_power_state = << >>
  /\ host_physical_cpu_cores = << >>
  /\ file_server_used = << >>
  /\ vm_disk_size_bytes = << >>
  /\ api_requests_total = << >>
  /\ faults_left = 0
  /\ loop = "once"
  /\ passes = 1
  /\ in_progress = 0
  /\ raised = FALSE
  /\ run_now = FALSE
  /\ started = 0
  /\ now = 0
  /\ next_run = 0
  /\ prev = None
  /\ PricingAtStart

NextPricing ==
  \/ \E i \in Threads, request \in Requests : handler_load(i, request)
  \/ \E i \in Threads : add_pricing(i)
  \/ \E i \in Threads : delete_pricing(i)
  \/ \E i \in Threads : set_active(i)
  \/ \E i \in Threads : import_csv(i)
  \/ \E i \in Threads : save_pricing(i)
  \/ \E i \in Threads : metrics(i)
  \/ handlers_return

SpecPricing == InitPricing /\ [][NextPricing]_vars

\* --------------------------------------------------------------- properties

\* The vms/list requests of the pass so far, in order.
VmRequests == SelectSeq(reqlog, LAMBDA e : e.endpoint = "vms/list")

\* The paging loop of get_vms / collect_vms has ended.
PagingDone == pc \notin {"clusters", "vms"}

\* No vms/list request of the pass failed.
NoPageFailed == \A i \in 1..Len(VmRequests) : VmRequests[i].ok

\* The endpoints called so far, in order.
Endpoints == [i \in 1..Len(reqlog) |-> reqlog[i].endpoint]

Requested(endpoint) == \E i \in 1..Len(reqlog) : reqlog[i].endpoint = endpoint

Failed(endpoint) ==
  \E i \in 1..Len(reqlog) : reqlog[i].endpoint = endpoint /\ ~reqlog[i].ok

\* C1 as the spec states it: with no request failing, a remote that holds N
\* VMs and serves them in pages of size P has all N collected, in ceil(N / P)
\* page requests, for every N >= 0 and P >= 1.
C1_Original ==
  (PagingDone /\ NoPageFailed) =>
    /\ Len(all_vms) = Len(r_vms)
    /\ Len(VmRequests) = CeilDiv(Len(r_vms), r_page)

\* C1, amended: when the remote serves pages of the requested length P, the
\* VM listing of both scripts collects exactly the N VMs, in order, and
\* issues max(1, ceil(N / P)) page requests: ceil(N / P) for N >= 1, and
\* one request (answered with an empty page) for N = 0.
C1_Amended ==
  (PagingDone /\ NoPageFailed /\ r_page >= length) =>
    /\ all_vms = r_vms
    /\ Len(VmRequests) = Max(1, CeilDiv(Len(r_vms), length))

\* C1: a listing of more than one page that ended with every page answered.
C1_Witness ==
  /\ PagingDone /\ NoPageFailed /\ r_page >= length
  /\ Len(r_vms) > length
  /\ Len(VmRequests) >= 2
  /\ Len(all_vms) = Len(r_vms)

\* C2: if the request for page k fails, no further page is requested, and
\* the listing ends with exactly the records of pages 1..k-1, in order (none
\* for k = 1); the pass goes on to its next step.
C2_FailedPageStopsPaging ==
  /\ \A k \in 1..Len(VmRequests) : ~VmRequests[k].ok => k = Len(VmRequests)
  /\ all_vms = Concat([k \in 1..Len(VmRequests) |-> VmRequests[k].entities])
  /\ (~NoPageFailed) => PagingDone

\* C2: a listing whose second page failed, with the first page kept.
C2_Witness ==
  /\ PagingDone
  /\ Len(VmRequests) = 2
  /\ VmRequests[1].ok /\ ~VmRequests[2].ok
  /\ all_vms = VmRequests[1].entities
  /\ all_vms # << >>
  /\ pc \in {"fs_list", "hosts"}

\* The steps of a pass of each script, by the endpoint each calls first.
CollectSteps == <<"clusters", "clusters/list", "vms/list", "hosts/list",
                  "storage_containers", "file-servers">>

\* The place in the log of the first call of an endpoint that was called.
FirstCall(endpoint) ==
  CHOOSE i \in 1..Len(reqlog) :
    /\ reqlog[i].endpoint = endpoint
    /\ \A j \in 1..(i - 1) : reqlog[j].endpoint # endpoint

\* The hosts whose gauges the pass set.
HostsCollected == Cardinality(DOMAIN host_physical_cpu_cores)

\* C3 as the spec states it: the host listing is paged like the VM listing,
\* so a host listing that did not fail collects all N hosts, also when N
\* exceeds one page length.
C3_HostsAllCollected ==
  (/\ program = "collect"
   /\ pc \in {"storage", "fs_list", "fs_stats", "done"}
   /\ ~Failed("hosts/list")
   /\ r_page >= length) =>
    HostsCollected = Len(r_hosts)

C6_FailedStatsKept ==
  (program = "export" /\ pc = "done" /\ csvfile.written /\ ~Failed("file-servers")) =>
    /\ Len(file_servers) = Len(r_fs)
    /\ \A i \in 1..Len(file_servers) : file_servers[i].uuid = r_fs[i].extId

\* The resolution of a cluster reference as the spec states it.
ResolvedName(map, cluster_ref) ==
  LET uuid == Get(cluster_ref, "uuid", "")
      name == Get(cluster_ref, "name", "")
  IN  IF uuid # "" /\ uuid \in DOMAIN map THEN map[uuid]
      ELSE IF name # "" THEN name
      ELSE "unknown"

\* C7 as the spec states it: every cluster name the collector labels a VM or
\* host with, and every accountId the export gives a VM's rows, is the
\* mapped name if the uuid is non-empty and in the lookup, else the embedded
\* name if non-empty, else "unknown".
C7_ResolvedAsSpecified ==
  /\ (program = "collect" /\ pc \notin {"clusters", "vms"}) =>
       \A i \in 1..Len(all_vms) :
         << "unknown", all_vms[i].uuid,
            ResolvedName(cluster_map, all_vms[i].cluster_reference) >>
           \in DOMAIN vm_power_state
  /\ program = "collect" =>
       \A label \in DOMAIN host_physical_cpu_cores :
         \E j \in 1..Len(r_hosts) :
           /\ r_hosts[j].uuid = label[2]
           /\ label[3] = ResolvedName(cluster_map, r_hosts[j].cluster_reference)
  /\ program = "export" =>
       \A i \in 1..(Len(rows) \div 3) :
         i <= Len(all_vms) =>
           rows[3 * i].accountId =
             ResolvedName(cluster_map, all_vms[i].cluster_reference)

\* C8: in every export file the sno values of the data rows, in row order,
\* are 1, 2, ..., n, for any mix of VMs and file servers, suppressed file
\* servers included.
C8_SnoSequence ==
  csvfile.written =>
    \A i \in 1..Len(csvfile.rows) : csvfile.rows[i].sno = i

\* C8: an export file with VM rows and a Files_TiB row that follows a
\* suppressed file server.
C8_Witness ==
  /\ csvfile.written
  /\ Len(file_servers) = 2
  /\ file_servers[1].used_gib = 0 /\ file_servers[2].used_gib > 0
  /\ Len(csvfile.rows) = 3 * Len(all_vms) + 1
  /\ csvfile.rows[Len(csvfile.rows)].meteredItem = "Files_TiB"

\* Rows of one metered item.
RowsOf(item) == { i \in 1..Len(rows) : rows[i].meteredItem = item }

C10_ThreeRowsPerVm ==
  (program = "export" /\ pc \in {"fs_list", "fs_stats", "done"} /\ all_vms # << >>) =>
    /\ Cardinality({ i \in 1..Len(rows) : rows[i].type = "VM" }) = 3 * Len(all_vms)
    /\ \A v \in 1..Len(all_vms) :
         LET b == 3 * (v - 1)
         IN  /\ Len(rows) >= b + 3
             /\ << rows[b + 1].meteredItem, rows[b + 2].meteredItem,
                   rows[b + 3].meteredItem >> = <<"vCPU", "Memory_GB", "Storage_GB">>
             /\ \A k \in 1..3 :
                  /\ rows[b + k].guid = all_vms[v].uuid
                  /\ rows[b + k].type = "VM"
                  /\ rows[b + k].sno = rows[b + 1].sno + (k - 1)

\* C10: an export file with the three rows of a VM whose memory is 0.
C10_Witness ==
  /\ csvfile.written
  /\ \E v \in 1..Len(all_vms) :
       /\ Get(all_vms[v], "memory_size_mib", 0) = 0
       /\ csvfile.rows[3 * v - 1].meteredItem = "Memory_GB"
       /\ csvfile.rows[3 * v - 1].qty = 0
       /\ csvfile.rows[3 * v - 1].guid = all_vms[v].uuid

\* A collector pass has ended after a pass before it got the same answers
\* from the same remote.
SameAnswersAgain ==
  /\ program = "collect" /\ loop = "pass" /\ pc = "done"
  /\ ~Falsy(prev)
  /\ prev.remote = remote
  /\ prev.reqlog = reqlog

\* C11: publishing is idempotent: a pass that gets the answers the pass
\* before it got leaves every per-entity gauge and every per-cluster count
\* gauge with the value it had after that pass, and adds no series.
C11_PublishIdempotent ==
  SameAnswersAgain => gauges = prev.gauges

\* C11: a second pass with every call answered as in the first, after which
\* VM, host and file-server gauges hold values.
C11_Witness ==
  /\ SameAnswersAgain
  /\ \A i \in 1..Len(reqlog) : reqlog[i].ok
  /\ DOMAIN vm_power_state # {} /\ DOMAIN vm_count # {}
  /\ DOMAIN host_physical_cpu_cores # {} /\ DOMAIN file_server_used # {}
  /\ gauges = prev.gauges

\* The uuids of the entities of a listing.
Uuids(entities) == { Get(entities[i], "uuid", "unknown") : i \in 1..Len(entities) }

\* C12: publishing never removes or resets a series: in every step every
\* series of a gauge stays, and keeps its value if its entity (for a count,
\* its cluster name) is absent from the remote data of the pass.
C12_SeriesKept ==
  [][/\ \A k \in DOMAIN vm_power_state :
          /\ k \in DOMAIN vm_power_state'
          /\ k[2] \notin Uuids(r_vms) => vm_power_state'[k] = vm_power_state[k]
     /\ \A k \in DOMAIN host_physical_cpu_cores :
          /\ k \in DOMAIN host_physical_cpu_cores'
          /\ k[2] \notin Uuids(r_hosts) =>
               host_physical_cpu_cores'[k] = host_physical_cpu_cores[k]
     /\ \A k \in DOMAIN file_server_used :
          /\ k \in DOMAIN file_server_used'
          /\ k[2] \notin { r_fs[i].extId : i \in 1..Len(r_fs) } =>
               file_server_used'[k] = file_server_used[k]
     /\ \A c \in DOMAIN vm_count :
          /\ c \in DOMAIN vm_count'
          /\ (\A i \in 1..Len(r_vms) :
                collect_cluster_name(cluster_map, r_vms[i].cluster_reference) # c) =>
               vm_count'[c] = vm_count[c]
     /\ \A c \in DOMAIN host_count :
          /\ c \in DOMAIN host_count'
          /\ (\A i \in 1..Len(r_hosts) :
                collect_cluster_name(cluster_map, r_hosts[i].cluster_reference) # c) =>
               host_count'[c] = host_count[c]
    ]_vars

\* C12: a pass that set the gauges of the VMs listed has ended, and the
\* series of a VM the remote no longer holds has the value the pass before
\* left it with.
C12_Witness ==
  /\ program = "collect" /\ loop = "pass" /\ pc = "done"
  /\ ~Falsy(prev)
  /\ all_vms # << >>
  /\ \E k \in DOMAIN vm_power_state :
       /\ k[2] \notin Uuids(r_vms)
       /\ k \in DOMAIN prev.gauges[3]
       /\ vm_power_state[k] = prev.gauges[3][k]
  /\ \E k \in DOMAIN vm_power_state : k[2] \in Uuids(all_vms)

\* C13: a failed pass never ends a main loop: an exception of a pass is
\* caught where the pass was called, a pass that ended, whatever it came
\* to, returns to the loop, and the next tick (the end of the sleep of the
\* metrics loop, a poll of the scheduler with the job due) starts a pass.
C13_LoopSurvives ==
  [][/\ loop' # "crashed"
     /\ pc = "raised" => (pc' = "done" /\ loop' = loop)
     /\ (pc = "done" /\ loop \in {"pass", "run_now", "job"}) =>
          loop' \in {"sleep", "schedule"}
     /\ (program = "collect" /\ loop = "slept") => (loop' = "pass" /\ pc' = "clusters")
     /\ (program = "export" /\ loop = "poll" /\ now >= next_run) =>
          (loop' = "job" /\ pc' = "clusters")
    ]_vars

\* C13: the daily job has started a pass after the pass before it raised.
C13_Witness ==
  /\ program = "export" /\ loop = "job" /\ pc = "clusters"
  /\ ~Falsy(prev) /\ prev.raised
  /\ passes = 2 /\ in_progress = 1

\* C14 as the spec states it: with RUN_NOW set or not, and whatever time
\* the immediate run takes, the job is first due at the first EXPORT_TIME
\* after the scheduler started.
C14_RunNowKeepsSchedule ==
  (/\ program = "export"
   /\ loop \in {"poll", "sleep", "job"}
   /\ passes = IF run_now THEN 1 ELSE 0) =>
    next_run = NextOccurrence(started)

\* C15: passes never overlap: at most one pass is in progress.
C15_NoOverlap == in_progress <= 1

\* C15: a pass of the daily job is still in progress a day after it was
\* due.
C15_Witness ==
  /\ program = "export" /\ loop = "job" /\ in_progress = 1
  /\ pc \notin {"done", "raised"}
  /\ now >= next_run + DayLen

\* What a logged listing answered: its body, or None if it failed.
Answer(entry) == IF entry.ok THEN [entities |-> entry.entities] ELSE None

\* C16: within a pass the cluster listing is requested, and has returned,
\* before any VM or host listing is requested, and every cluster name of
\* the pass is resolved against the lookup that listing gave.
C16_ClustersFirst ==
  /\ \A i \in 1..Len(reqlog) :
       reqlog[i].endpoint \in {"vms/list", "hosts/list"} =>
         \E j \in 1..(i - 1) : reqlog[j].endpoint = "clusters/list"
  /\ (program = "export" /\ pc \notin {"clusters", "vms"}) =>
       /\ cluster_map = get_clusters(<< >>, Answer(reqlog[FirstCall("clusters/list")]))
       /\ \A v \in 1..Len(all_vms) :
            3 * v <= Len(rows) =>
              rows[3 * v].accountId =
                export_cluster_name(cluster_map, all_vms[v].cluster_reference)
  /\ (program = "collect" /\ pc \notin {"clusters", "vms"}) =>
       /\ cluster_map = collect_clusters_map(Answer(reqlog[FirstCall("clusters")]),
                                             Answer(reqlog[FirstCall("clusters/list")]))
       /\ \A v \in 1..Len(all_vms) :
            \E k \in DOMAIN vm_power_state :
              /\ k[2] = all_vms[v].uuid
              /\ k[3] = collect_cluster_name(cluster_map, all_vms[v].cluster_reference)

\* C16: an export whose rows carry the name the cluster listing of the
\* pass gave for the VM's cluster.
C16_Witness ==
  /\ program = "export" /\ pc = "done" /\ csvfile.written
  /\ reqlog[1].endpoint = "clusters/list" /\ reqlog[1].ok
  /\ "u1" \in DOMAIN cluster_map
  /\ all_vms[1].cluster_reference.uuid = "u1"
  /\ rows[1].accountId = cluster_map["u1"]

\* C17 as the spec states it: if the cluster listing of a pass fails, the
\* rest of the pass uses an empty lookup, and every host and VM cluster name
\* of the pass is the embedded name or "unknown".
C17_FailedListingEmptyLookup ==
  (Failed("clusters/list") /\ pc # "clusters") =>
    /\ cluster_map = << >>
    /\ program = "export" =>
         \A v \in 1..Len(all_vms) :
           3 * v <= Len(rows) =>
             rows[3 * v].accountId = ResolvedName(<< >>, all_vms[v].cluster_reference)
    /\ program = "collect" =>
         \A k \in DOMAIN vm_power_state \cup DOMAIN host_physical_cpu_cores :
           \E e \in { r_vms[i] : i \in 1..Len(r_vms) }
                    \cup { r_hosts[i] : i \in 1..Len(r_hosts) } :
             /\ e.uuid = k[2]
             /\ k[3] = ResolvedName(<< >>, e.cluster_reference)

\* The file servers of the result list with used bytes > 0.
Billable == SelectSeq(file_servers, LAMBDA fs : fs.used_gib > 0)

\* C18: under the suppress-zero policy a file server of the result list has
\* exactly one Files_TiB row if its used bytes are > 0 and none otherwise;
\* a suppressed file server consumes no sequence number; every file-server
\* row comes after all VM rows.
C18_SuppressZero ==
  csvfile.written =>
    LET frows == SelectSeq(csvfile.rows, LAMBDA r : r.meteredItem = "Files_TiB")
    IN  /\ [i \in 1..Len(frows) |-> frows[i].guid]
             = [i \in 1..Len(Billable) |-> Billable[i].uuid]
        /\ \A i \in 1..Len(frows) : frows[i].type = "FileServer" /\ frows[i].qty > 0
        /\ Len(csvfile.rows) = 3 * Len(all_vms) + Len(Billable)
        /\ sno = Len(csvfile.rows) + 1
        /\ \A i \in 1..Len(frows) : frows[i].sno = 3 * Len(all_vms) + i
        /\ \A i, j \in 1..Len(csvfile.rows) :
             (csvfile.rows[i].type = "VM" /\ csvfile.rows[j].type = "FileServer") => i < j

\* C18: an export file with VM rows, then one Files_TiB row, of a pass that
\* suppressed a file server of zero usage.
C18_Witness ==
  /\ csvfile.written
  /\ Len(Billable) = 1 /\ Len(file_servers) > Len(Billable)
  /\ all_vms # << >>
  /\ Cardinality(RowsOf("Files_TiB")) = 1
  /\ sno = 3 * Len(all_vms) + 2

\* The calls a step adds to the log of the pass.
NewCalls ==
  IF Len(reqlog') > Len(reqlog)
  THEN SubSeq(reqlog', Len(reqlog) + 1, Len(reqlog'))
  ELSE << >>

\* The endpoint and status labels a logged call of the collector is to be
\* counted under.
CounterLabels(entry) ==
  << IF entry.endpoint = "file-servers/stats" THEN fs_stats_endpoint(Head(fs_todo))
     ELSE IF entry.endpoint = "file-servers" THEN "files/v4.0/config/file-servers"
     ELSE entry.endpoint,
     IF entry.ok THEN "success" ELSE "error" >>

C20_NormalizationTotal ==
  /\ program = "collect" => pc # "raised"
  /\ (program = "collect" /\ loop = "pass" /\ pc = "done") =>
       /\ \A i \in 1..Len(CollectSteps) : Requested(CollectSteps[i])
       /\ ~Failed("hosts/list") =>
            \A h \in Uuids(r_hosts) :
              \E k \in DOMAIN host_physical_cpu_cores : k[2] = h

\* diskBytes of a disk list as the spec states it: each disk counts with its
\* disk_size_bytes if that is present and not 0, else with its
\* disk_size_mib * 1024 * 1024 (0 if that is absent too).
DiskBytes(disk_list) ==
  LET one(disk) ==
        IF "disk_size_bytes" \in DOMAIN disk /\ disk.disk_size_bytes # 0
        THEN disk.disk_size_bytes
        ELSE IF "disk_size_mib" \in DOMAIN disk
        THEN disk.disk_size_mib * 1024 * 1024
        ELSE 0
      RECURSIVE sum(_)
      sum(i) == IF i = 0 THEN 0 ELSE one(disk_list[i]) + sum(i - 1)
  IN  sum(Len(disk_list))

\* C21: for every VM listed, the disk bytes the export computes and the
\* disk bytes the collector computes are both the sum over its disks of
\* disk_size_bytes if present and nonzero, else disk_size_mib * 1024 * 1024
\* (0 for an empty list); the export's Storage_GB row and the collector's
\* disk gauge carry that sum.
C21_DiskBytes ==
  /\ \A v \in 1..Len(all_vms) :
       LET dl == Get(all_vms[v], "disk_list", << >>)
       IN  /\ total_disk_bytes(dl) = DiskBytes(dl)
           /\ total_disk_size(dl) = DiskBytes(dl)
  /\ (program = "export" /\ pc \in {"fs_list", "fs_stats", "done"}) =>
       \A v \in 1..Len(all_vms) :
         3 * v <= Len(rows) =>
           rows[3 * v].qty =
             RoundHalfEven(DiskBytes(Get(all_vms[v], "disk_list", << >>)) * 100,
                           1024 * 1024 * 1024)
  /\ (program = "collect" /\ pc \in {"hosts", "storage", "fs_list", "fs_stats", "done"}) =>
       \A v \in 1..Len(all_vms) :
         vm_disk_size_bytes[<< "unknown", all_vms[v].uuid >>] =
           DiskBytes(Get(all_vms[v], "disk_list", << >>))

\* C21: the collector has set the disk gauge of a VM with a disk given in
\* bytes and in MiB, of a VM with disks given in MiB only, and of a VM
\* without disks.
C21_Witness ==
  /\ program = "collect" /\ pc = "done"
  /\ Get(vm_disk_size_bytes, << "unknown", "vm5" >>, 0) = 1048576
  /\ Get(vm_disk_size_bytes, << "unknown", "vm3" >>, 0) = 3 * 1024 * 1024
  /\ Get(vm_disk_size_bytes, << "unknown", "vm4" >>, 1) = 0

\* The hosts the pass listed.
PassHosts ==
  IF Requested("hosts/list") THEN reqlog[FirstCall("hosts/list")].entities ELSE << >>

\* How many of the entities the pass attributed to the cluster name.
Attributed(entities, c) ==
  Cardinality({ i \in 1..Len(entities) :
                  collect_cluster_name(cluster_map, entities[i].cluster_reference) = c })

\* A gauge as the pass before left it.
Before(g) == IF Falsy(prev) THEN << >> ELSE prev.gauges[g]

\* A collector pass has ended.
PassEnded == program = "collect" /\ loop = "pass" /\ pc = "done"

\* C22 as the spec states it: after every pass that ran to its end without
\* an exception each count gauge holds, for
\* every cluster name, the number of entities the pass attributed to it,
\* also for a name that has none in this pass.
C22_Original ==
  (PassEnded /\ ~raised) =>
    /\ \A c \in DOMAIN vm_count : vm_count[c] = Attributed(all_vms, c)
    /\ \A c \in DOMAIN host_count : host_count[c] = Attributed(PassHosts, c)

\* C22, amended: after a pass that ran its VM loop (its host loop) to the
\* end, nutanix_vm_count (nutanix_host_count) holds, for every cluster name
\* the pass attributed at least one VM (host) to, the number attributed;
\* the count of every other cluster name, and every count if the loop was
\* not run to its end, is the one the pass before left, so that the counts
\* may sum to more than the entities of the latest pass.
C22_Amended ==
  PassEnded =>
    /\ \A c \in DOMAIN vm_count :
         vm_count[c] =
           IF Requested("hosts/list") /\ Attributed(all_vms, c) > 0
           THEN Attributed(all_vms, c) ELSE Before(1)[c]
    /\ \A c \in DOMAIN host_count :
         host_count[c] =
           IF Requested("storage_containers") /\ Attributed(PassHosts, c) > 0
           THEN Attributed(PassHosts, c) ELSE Before(2)[c]
    /\ \A i \in 1..Len(all_vms) :
         Requested("hosts/list") =>
           collect_cluster_name(cluster_map, all_vms[i].cluster_reference)
             \in DOMAIN vm_count

\* C22: a pass has ended that attributed a VM to one cluster and none to
\* another, whose count is still the one of the pass before.
C22_Witness ==
  /\ PassEnded /\ Requested("hosts/list")
  /\ \E c, d \in DOMAIN vm_count :
       /\ Attributed(all_vms, c) = 1 /\ vm_count[c] = 1
       /\ Attributed(all_vms, d) = 0 /\ vm_count[d] = 1
       /\ Before(1)[d] = 1

\* C23: the VM paging loop ends whatever total_matches the remote reports:
\* every turn that goes on advances the offset by the page length, and a
\* remote that holds N VMs is asked for at most ceil(N / length) + 1 pages.
C23_PagingTerminates ==
  /\ Len(VmRequests) <= CeilDiv(Len(r_vms), length) + 1
  /\ offset <= CeilDiv(Len(r_vms), length) * length
  /\ pc = "vms" => offset = length * Len(VmRequests)
  /\ Len(all_vms) <= Len(r_vms)

\* C23: the listing of a remote that over-states its total has ended with
\* the empty page that follows the last VM.
C23_Witness ==
  /\ PagingDone /\ NoPageFailed
  /\ r_total = "over" /\ r_page = length
  /\ Len(r_vms) > length
  /\ Len(VmRequests) = CeilDiv(Len(r_vms), length) + 1
  /\ VmRequests[Len(VmRequests)].entities = << >>
  /\ all_vms = r_vms

\* C24: in the stored pricing, the active code of each type of {nci, nus}
\* is the empty string or a key of that type's price table.
C24_ActiveNeverDangles ==
  \A t \in Types :
    LET active_code == Get(load_pricing.active, t, "")
    IN  active_code = "" \/ active_code \in DOMAIN load_pricing[t]

\* PRICING_FILE after this request was handled alone on this content.
Handled(file, request) ==
  LET out == handler_outcome(Loaded(file), request)
  IN  IF out.save THEN out.pricing ELSE file

\* C25: once the requests in hand are all answered, the stored pricing is
\* what handling them one after the other, in some order, leaves of the
\* pricing stored when they arrived.
C25_Serializable ==
  Quiet =>
    \/ Responded = {} /\ pricing_file = base
    \/ \E i, j \in Responded :
         /\ Responded = {i, j}
         /\ pricing_file =
              IF i = j THEN Handled(base, handlers[i].request)
              ELSE Handled(Handled(base, handlers[i].request),
                           handlers[j].request)

\* C26: after a request that was handled alone and saved the pricing, each
\* active-rate gauge is the hourly rate get_active_pricing reports for its
\* type: the rate of the active code, and 0 when none is set.
C26_ActiveRateGauge ==
  \A i \in Threads :
    (Quiet /\ Responded = {i} /\ handlers[i].response = "success") =>
      /\ active_nci_rate = get_active_pricing(load_pricing, "nci").hourly_rate
      /\ active_nus_rate = get_active_pricing(load_pricing, "nus").hourly_rate

\* The rows of an upload that are not skipped: type nci or nus, in any
\* case, and a product code.
KeptRow(row) ==
  /\ Lower(Get(row, "type", "")) \in Types
  /\ Get(row, "product_code", "") # ""

Kept(reader) == SelectSeq(reader, KeptRow)

RowRaises(reader) ==
  \E k \in 1..Len(Kept(reader)) :
    \/ NotNumber(Kept(reader)[k], "hourly_rate")
    \/ NotNumber(Kept(reader)[k], "annual_rate")

\* This pricing with the kept rows upserted and its active selection as it
\* was.
Upserted(pricing, kept) ==
  LET of(t)    == { k \in 1..Len(kept) : Lower(kept[k].type) = t }
      last(t, code) ==
        CHOOSE k \in of(t) :
          /\ kept[k].product_code = code
          /\ \A m \in of(t) : kept[m].product_code = code => m <= k
      table(t) ==
        [code \in DOMAIN pricing[t] \cup { kept[k].product_code : k \in of(t) } |->
           IF \E k \in of(t) : kept[k].product_code = code
           THEN LET row == kept[last(t, code)]
                IN  [name        |-> Get(row, "name", code),
                     hourly_rate |-> Get(row, "hourly_rate", 0),
                     annual_rate |-> Get(row, "annual_rate", 0),
                     unit        |-> Get(row, "unit", IF t = "nci" THEN "core"
                                                      ELSE "TiB")]
           ELSE pricing[t][code]]
  IN  [pricing EXCEPT !.nci = table("nci"), !.nus = table("nus")]

\* C27: an import whose rows raise leaves the stored pricing as it is and
\* reports an error; any other import leaves the stored pricing with exactly
\* its kept rows upserted and the active selection unchanged.
C27_ImportAllOrNothing ==
  [][\A i \in Threads :
       ( /\ handlers[i].pc = "loaded"
         /\ handlers[i].request.kind = "import"
         /\ handlers'[i].pc # "loaded" ) =>
           LET reader == handlers[i].request.rows
           IN  IF RowRaises(reader)
               THEN /\ pricing_file' = pricing_file
                    /\ handlers'[i].response = "error"
               ELSE Loaded(pricing_file') =
                      Upserted(Loaded(pricing_file), Kept(reader))]_vars

====
